---- MODULE Spec2Model ----
(***************************************************************************)
(* Task manager: the state store (storage.py) and the task model           *)
(* (tasks.py).                                                             *)
(*                                                                         *)
(* Python strings on which the code works character by character (strip,   *)
(* lower, startswith, sort) are sequences of one-character strings.  JSON  *)
(* values are tagged records [kind, val] so that a list, an object and a   *)
(* scalar can stand in the same place, as they can in Python.              *)
(***************************************************************************)
EXTENDS Integers, Sequences, FiniteSets, TLC

VARIABLES
    tasksFile,   \* data/tasks.json
    catsFile,    \* data/categories.json
    logFile,     \* data/activity.log
    backups,     \* backups/: file name |-> file content
    today,       \* the calendar date of the system clock, <<y, m, d>>
    pc,          \* position inside a running save_state / load_state call
    frame,       \* locals of the running call
    ret,         \* what the call that has just returned gave back
    hist,        \* history: the save / backup / corrupt / load protocol
    memTasks,    \* the in-memory task collection (tasks in main.py)
    tret,        \* what the task operation that has just returned gave back
    pure,        \* what the call of a function without side effects gave back
    memCats,     \* the in-memory category collection (categories in main.py)
    memActivity, \* the in-memory event list (activity in main.py)
    sess         \* where main() stands, and what its last handler did

storeVars == <<tasksFile, catsFile, logFile, backups, today, pc, frame, ret, hist>>

taskVars == <<memTasks, tret, pure>>

mainVars == <<memCats, memActivity, sess>>

vars == <<tasksFile, catsFile, logFile, backups, today, pc, frame, ret, hist, memTasks, tret,
          pure, memCats, memActivity, sess>>

(***************************************************************************)
(* Bounds                                                                  *)
(***************************************************************************)
MaxDays == 1         \* number of midnights the clock may pass
MaxTasks == 2        \* tasks in the in-memory collection
MaxBadLines == 1     \* number of malformed lines an outside writer adds to the log
MaxSubtasks == 1     \* subtasks of one task
MaxEvents == 2       \* events in the activity list of a session
MaxCats == 2         \* categories in the in-memory collection

(***************************************************************************)
(* Characters and strings                                                  *)
(***************************************************************************)
\* the characters the model uses, in ASCII order
Ascii == <<" ", "-", ".", "0", "1", "2", "3", "4", "5", "6", "7", "8", "9",
           "A", "B", "C", "D", "E", "F", "G", "H", "I", "J", "K", "L", "M",
           "N", "O", "P", "Q", "R", "S", "T", "U", "V", "W", "X", "Y", "Z",
           "_",
           "a", "b", "c", "d", "e", "f", "g", "h", "i", "j", "k", "l", "m",
           "n", "o", "p", "q", "r", "s", "t", "u", "v", "w", "x", "y", "z">>

\* ord(c), up to the order
Ord == [c \in {Ascii[i] : i \in 1..Len(Ascii)} |-> CHOOSE i \in 1..Len(Ascii) : Ascii[i] = c]

\* Python's < on str: lexicographic by code point, a proper prefix is smaller
RECURSIVE StrLess(_, _)
StrLess(a, b) ==
    IF b = <<>> THEN FALSE
    ELSE IF a = <<>> THEN TRUE
    ELSE IF Head(a) = Head(b) THEN StrLess(Tail(a), Tail(b))
    ELSE Ord[Head(a)] < Ord[Head(b)]

StartsWith(s, p) == Len(s) >= Len(p) /\ SubSeq(s, 1, Len(p)) = p
EndsWith(s, p) == Len(s) >= Len(p) /\ SubSeq(s, Len(s) - Len(p) + 1, Len(s)) = p

DigitChars == <<"0", "1", "2", "3", "4", "5", "6", "7", "8", "9">>

\* "%0<w>d" % n
RECURSIVE Pad(_, _)
Pad(n, w) == IF w = 0 THEN <<>> ELSE Pad(n \div 10, w - 1) \o <<DigitChars[(n % 10) + 1]>>

\* the string literals of tasks.py
Str_Uncategorized == <<"U", "n", "c", "a", "t", "e", "g", "o", "r", "i", "z", "e", "d">>
Str_Untitled == <<"U", "n", "t", "i", "t", "l", "e", "d">>
Str_Pending == <<"P", "e", "n", "d", "i", "n", "g">>
Str_InProgress == <<"I", "n", " ", "P", "r", "o", "g", "r", "e", "s", "s">>
Str_Done == <<"D", "o", "n", "e">>
Str_Archived == <<"A", "r", "c", "h", "i", "v", "e", "d">>
Str_Overdue == <<"O", "v", "e", "r", "d", "u", "e">>
Str_updated == <<"u", "p", "d", "a", "t", "e", "d">>
Str_deleted == <<"d", "e", "l", "e", "t", "e", "d">>
Str_archived == <<"a", "r", "c", "h", "i", "v", "e", "d">>
Str_Low == <<"L", "o", "w">>
Str_Medium == <<"M", "e", "d", "i", "u", "m">>
Str_High == <<"H", "i", "g", "h">>

\* Python None
None == <<>>

(***************************************************************************)
(* The calendar                                                            *)
(***************************************************************************)
IsLeap(y) == (y % 4 = 0 /\ y % 100 /= 0) \/ y % 400 = 0

DaysInMonth(y, m) ==
    IF m = 2 THEN (IF IsLeap(y) THEN 28 + 1 ELSE 28)
    ELSE IF m \in {4, 6, 9, 11} THEN 30
    ELSE 31

NextDay(d) ==
    IF d[3] < DaysInMonth(d[1], d[2]) THEN <<d[1], d[2], d[3] + 1>>
    ELSE IF d[2] < 12 THEN <<d[1], d[2] + 1, 1>>
    ELSE <<d[1] + 1, 1, 1>>

RECURSIVE AddDays(_, _)
AddDays(d, n) == IF n = 0 THEN d ELSE AddDays(NextDay(d), n - 1)

\* the session starts on the last day of a year
StartDate == <<2024, 12, 31>>

\* mutant: the date formatted day first, "%d%m%Y"
StrfDmy(d) == Pad(d[3], 2) \o Pad(d[2], 2) \o Pad(d[1], 4)

\* datetime.now().strftime("%Y%m%d")
StrfYmd(d) == Pad(d[1], 4) \o Pad(d[2], 2) \o Pad(d[3], 2)

(***************************************************************************)
(* JSON values and file contents                                           *)
(***************************************************************************)
JList(s) == [kind |-> "list", val |-> s]
JDict(r) == [kind |-> "dict", val |-> r]
JNum == [kind |-> "num", val |-> <<>>]
JNone == [kind |-> "none", val |-> <<>>]

FileMissing == [kind |-> "missing", val |-> <<>>]
FileGarbage == [kind |-> "garbage", val |-> <<>>]
LogLines(s) == [kind |-> "lines", val |-> s]

LineJson(v) == [kind |-> "json", val |-> v]
LineBad == [kind |-> "bad", val |-> <<>>]

IsList(v) == v.kind = "list"

\* dict.get(key, default)
Get(d, key, default) == IF key \in DOMAIN d THEN d[key] ELSE default

(***************************************************************************)
(* storage.py: pure helpers                                                *)
(***************************************************************************)
Required == {"id", "title", "description", "category", "priority", "status",
             "due_date", "created_at", "updated_at"}

\* mutant: the test of os.path.exists inverted
_safe_read_json_Inverted(file, default) ==
    IF file.kind /= "missing" THEN default
    ELSE IF file.kind = "garbage" THEN default
    ELSE file

\* _safe_read_json without the except clause's default: what does not parse is
\* handed on as it is
_safe_read_json_KeepGarbage(file, default) ==
    IF file.kind = "missing" THEN default
    ELSE file

\* json.load of an existing, parseable file; the default otherwise
_safe_read_json(file, default) ==
    IF file.kind = "missing" THEN default
    ELSE IF file.kind = "garbage" THEN default
    ELSE file

\* json.dump(data): the file holds the document
_write_json(data) == data

\* validate_task_schema that looks at the first record only
validate_task_schema_FirstOnly(tasks) ==
    IF ~IsList(tasks) THEN FALSE
    ELSE \A i \in 1..Len(tasks.val) :
            i = 1 => /\ tasks.val[i].kind = "dict"
                     /\ \A k \in Required : k \in DOMAIN tasks.val[i].val

validate_task_schema(tasks) ==
    IF ~IsList(tasks) THEN FALSE
    ELSE \A i \in 1..Len(tasks.val) :
            /\ tasks.val[i].kind = "dict"
            /\ \A k \in Required : k \in DOMAIN tasks.val[i].val

RECURSIVE ParsedLines(_)
ParsedLines(lines) ==
    IF lines = <<>> THEN <<>>
    ELSE IF Head(lines).kind = "json" THEN <<Head(lines).val>> \o ParsedLines(Tail(lines))
    ELSE ParsedLines(Tail(lines))

\* blank and unparsable lines are skipped one by one
_read_activity_log(file) ==
    IF file.kind = "missing" THEN JList(<<>>)
    ELSE JList(ParsedLines(file.val))

\* one json.dumps(ev) line per event, the file opened with "w"
_write_activity_log(activity_log) ==
    LogLines([i \in 1..Len(activity_log.val) |-> LineJson(activity_log.val[i])])

NamePrefix == <<"s", "t", "a", "t", "e", "_">>
NameSuffix == <<".", "j", "s", "o", "n">>

\* f"state_{today}.json"
BackupName(d) == NamePrefix \o StrfYmd(d) \o NameSuffix

\* mutant: candidates.sort(), oldest first
RECURSIVE SortAscending(_)
SortAscending(names) ==
    IF names = {} THEN <<>>
    ELSE LET m == CHOOSE x \in names : \A y \in names : y = x \/ StrLess(x, y)
         IN  <<m>> \o SortAscending(names \ {m})

\* candidates.sort(reverse=True)
RECURSIVE SortReverse(_)
SortReverse(names) ==
    IF names = {} THEN <<>>
    ELSE LET m == CHOOSE x \in names : \A y \in names : y = x \/ StrLess(y, x)
         IN  <<m>> \o SortReverse(names \ {m})

\* the try block without the schema check: any snapshot that parses to a dict
BackupReadable_NoSchema(file) ==
    file.kind = "dict"

\* the body of the try block for one candidate: TRUE iff data is returned
BackupReadable(file) ==
    /\ file.kind = "dict"
    /\ validate_task_schema(Get(file.val, "tasks", JList(<<>>)))

\* mutant: only the newest candidate is tried
FirstOnly(dir, candidates) ==
    IF candidates = <<>> THEN JNone
    ELSE IF BackupReadable(dir[Head(candidates)]) THEN dir[Head(candidates)]
    ELSE JNone

RECURSIVE FirstValid(_, _)
FirstValid(dir, candidates) ==
    IF candidates = <<>> THEN JNone
    ELSE IF BackupReadable(dir[Head(candidates)]) THEN dir[Head(candidates)]
    ELSE FirstValid(dir, Tail(candidates))

_latest_valid_backup(dir) ==
    LET candidates == SortReverse({n \in DOMAIN dir :
                                     StartsWith(n, NamePrefix) /\ EndsWith(n, NameSuffix)})
    IN  FirstValid(dir, candidates)

(***************************************************************************)
(* Sample collections handed to save_state                                 *)
(***************************************************************************)

SampleTask(id, title) ==
    [id |-> id, title |-> title, description |-> <<>>, category |-> Str_Uncategorized,
     priority |-> Str_Medium, status |-> Str_Pending, due_date |-> <<>>,
     created_at |-> StartDate \o <<1>>, updated_at |-> StartDate \o <<1>>,
     tags |-> <<>>, subtasks |-> <<>>, completed_at |-> None, archived_at |-> None]

TaskX == JDict(SampleTask(<<"a", "1">>, <<"X">>))
\* a record lacking the required field updated_at
TaskNoUpdated ==
    JDict([id |-> <<"b", "2">>, title |-> <<"Y">>, description |-> <<>>,
           category |-> Str_Uncategorized, priority |-> Str_Medium, status |-> Str_Pending,
           due_date |-> <<>>, created_at |-> StartDate \o <<1>>])
CatSchool == JDict([id |-> <<"c", "1">>, name |-> <<"S", "c", "h", "o", "o", "l">>,
                    description |-> <<>>, color |-> <<>>])
Event1 == JDict([timestamp |-> StartDate \o <<1>>, action |-> "create_task",
                 task_id |-> <<"a", "1">>, summary |-> <<"X">>])

SaveInputs ==
    { [T |-> JList(<<>>), C |-> JList(<<>>), A |-> JList(<<>>)],
      [T |-> JList(<<TaskX>>), C |-> JList(<<CatSchool>>), A |-> JList(<<Event1>>)],
      [T |-> JList(<<TaskNoUpdated>>), C |-> JList(<<CatSchool>>), A |-> JList(<<>>)] }

\* what an outside writer may leave in a whole-document file
CorruptDocs == {FileGarbage, JDict([not |-> "a list"])}

(***************************************************************************)
(* State of the store                                                      *)
(***************************************************************************)
NoFiles == [tasks |-> FileMissing, cats |-> FileMissing, log |-> FileMissing]

NoFrame == [tasks |-> JNone, categories |-> JNone, activity |-> JNone, old |-> NoFiles]

NoRet == [op |-> "none", path |-> "none", created |-> <<>>,
          tasks |-> JNone, categories |-> JNone, activity |-> JNone, read |-> NoFiles]

NoHist == [phase |-> "none", T |-> JNone, C |-> JNone, A |-> JNone, created |-> FALSE]

\* no function has been called
NoPure == [fn |-> "none", arg |-> <<>>, out |-> <<>>]

\* what a call leaves behind: the function, what it was given, what it gave
Applied(fn, arg, out) == [fn |-> fn, arg |-> arg, out |-> out]

LiveFiles == [tasks |-> tasksFile, cats |-> catsFile, log |-> logFile]

\* a fresh state root: _ensure_dirs has made the directories, no file exists
StoreInit ==
    /\ tasksFile = FileMissing
    /\ catsFile = FileMissing
    /\ logFile = FileMissing
    /\ backups = [n \in {} |-> FileMissing]
    /\ today = StartDate
    /\ pc = "idle"
    /\ frame = NoFrame
    /\ ret = NoRet
    /\ hist = NoHist

(***************************************************************************)
(* storage.py: operations.  save_state and the recovery branch of          *)
(* load_state write three files one after the other; the process can be    *)
(* killed between two writes (Interrupt).                                  *)
(***************************************************************************)

\* save_state up to and including _write_json(tasks_path, tasks)
SaveState(in) ==
    /\ pc = "idle"
    /\ tasksFile' = _write_json(in.T)
    /\ pc' = "save_cats"
    /\ frame' = [tasks |-> in.T, categories |-> in.C, activity |-> in.A, old |-> NoFiles]
    /\ ret' = NoRet
    /\ hist' = NoHist
    /\ UNCHANGED <<catsFile, logFile, backups, today>>
    /\ UNCHANGED taskVars
    /\ UNCHANGED mainVars

\* _write_json(cats_path, categories)
SaveWriteCats ==
    /\ pc = "save_cats"
    /\ catsFile' = _write_json(frame.categories)
    /\ pc' = "save_log"
    /\ UNCHANGED <<tasksFile, logFile, backups, today, frame, ret, hist>>
    /\ UNCHANGED taskVars
    /\ UNCHANGED mainVars

\* _write_activity_log(log_path, activity_log); save_state returns
SaveWriteLog ==
    /\ pc = "save_log"
    /\ logFile' = _write_activity_log(frame.activity)
    /\ pc' = "idle"
    /\ frame' = NoFrame
    /\ ret' = [NoRet EXCEPT !.op = "save_state"]
    /\ hist' = [phase |-> "saved", T |-> frame.tasks, C |-> frame.categories,
                A |-> frame.activity, created |-> FALSE]
    /\ UNCHANGED <<tasksFile, catsFile, backups, today>>
    /\ UNCHANGED taskVars
    /\ UNCHANGED mainVars

\* the phase of the protocol once a load_state call has returned
LoadedPhase(h) ==
    IF h.phase = "saved" THEN [h EXCEPT !.phase = "loaded_after_save"]
    ELSE IF h.phase = "corrupted" THEN [h EXCEPT !.phase = "loaded_after_corrupt"]
    ELSE NoHist

\* mutant: the clean start resets categories and activity too
LoadCleanAll(categories, activity) ==
    [tasks |-> JList(<<>>), categories |-> JList(<<>>), activity |-> JList(<<>>)]

\* return [], categories if isinstance(categories, list) else [], activity
LoadClean(categories, activity) ==
    [tasks |-> JList(<<>>),
     categories |-> IF IsList(categories) THEN categories ELSE JList(<<>>),
     activity |-> activity]

\* the isinstance checks and return tasks, categories, activity
LoadNormal(tasks, categories, activity) ==
    [tasks |-> tasks,
     categories |-> IF ~IsList(categories) THEN JList(<<>>) ELSE categories,
     activity |-> IF ~IsList(activity) THEN JList(<<>>) ELSE activity]

\* the first three lines of _restore_from_backup
BackupFields(backup_data) ==
    [tasks |-> Get(backup_data.val, "tasks", JList(<<>>)),
     categories |-> Get(backup_data.val, "categories", JList(<<>>)),
     activity |-> Get(backup_data.val, "activity", JList(<<>>))]

Returned(op, path, triple, read) ==
    [op |-> op, path |-> path, created |-> <<>>, tasks |-> triple.tasks,
     categories |-> triple.categories, activity |-> triple.activity, read |-> read]

\* mutant: the snapshot of the day is written whether or not it exists
BackupNeverExists(dir, backup_path) == FALSE

\* os.path.exists(backup_path)
BackupExists(dir, backup_path) == backup_path \in DOMAIN dir

\* load_state: the reads, the decision and, when it recovers, the first write
\* of _restore_from_backup
LoadState ==
    /\ pc = "idle"
    /\ LET tasks == _safe_read_json(tasksFile, JList(<<>>))
           categories == _safe_read_json(catsFile, JList(<<>>))
           activity == _read_activity_log(logFile)
           backup == _latest_valid_backup(backups)
       IN  IF tasks /= JList(<<>>) /\ ~validate_task_schema(tasks)
           THEN IF backup /= JNone
                THEN /\ tasksFile' = _write_json(BackupFields(backup).tasks)
                     /\ pc' = "restore_cats"
                     /\ frame' = [tasks |-> BackupFields(backup).tasks,
                                  categories |-> BackupFields(backup).categories,
                                  activity |-> BackupFields(backup).activity,
                                  old |-> LiveFiles]
                     /\ ret' = NoRet
                     /\ UNCHANGED hist
                ELSE /\ ret' = Returned("load_state", "clean",
                                        LoadClean(categories, activity), LiveFiles)
                     /\ hist' = LoadedPhase(hist)
                     /\ UNCHANGED <<tasksFile, pc, frame>>
           ELSE /\ ret' = Returned("load_state", "normal",
                                   LoadNormal(tasks, categories, activity), LiveFiles)
                /\ hist' = LoadedPhase(hist)
                /\ UNCHANGED <<tasksFile, pc, frame>>
    /\ UNCHANGED <<catsFile, logFile, backups, today>>
    /\ UNCHANGED taskVars
    /\ UNCHANGED mainVars

\* mutant: the recovery leaves categories.json as it was
RestoreSkipCats ==
    /\ pc = "restore_cats"
    /\ pc' = "restore_log"
    /\ UNCHANGED <<tasksFile, catsFile, logFile, backups, today, frame, ret, hist>>
    /\ UNCHANGED taskVars
    /\ UNCHANGED mainVars

\* _restore_from_backup: _write_json(cats_path, categories)
RestoreWriteCats ==
    /\ pc = "restore_cats"
    /\ catsFile' = _write_json(frame.categories)
    /\ pc' = "restore_log"
    /\ UNCHANGED <<tasksFile, logFile, backups, today, frame, ret, hist>>
    /\ UNCHANGED taskVars
    /\ UNCHANGED mainVars

\* _restore_from_backup: _write_activity_log(log_path, activity); load_state returns
RestoreWriteLog ==
    /\ pc = "restore_log"
    /\ logFile' = _write_activity_log(frame.activity)
    /\ pc' = "idle"
    /\ frame' = NoFrame
    /\ ret' = Returned("load_state", "restored", frame, frame.old)
    /\ hist' = LoadedPhase(hist)
    /\ UNCHANGED <<tasksFile, catsFile, backups, today>>
    /\ UNCHANGED taskVars
    /\ UNCHANGED mainVars

\* the process dies between two file writes of save_state or of the recovery
Interrupt ==
    /\ pc /= "idle"
    /\ pc' = "idle"
    /\ frame' = NoFrame
    /\ ret' = NoRet
    /\ hist' = NoHist
    /\ UNCHANGED <<tasksFile, catsFile, logFile, backups, today>>
    /\ UNCHANGED taskVars
    /\ UNCHANGED mainVars

BackupState ==
    /\ pc = "idle"
    /\ LET backup_path == BackupName(today)
           payload == JDict([tasks |-> _safe_read_json(tasksFile, JList(<<>>)),
                             categories |-> _safe_read_json(catsFile, JList(<<>>)),
                             activity |-> _read_activity_log(logFile)])
       IN  IF BackupExists(backups, backup_path)
           THEN /\ ret' = [NoRet EXCEPT !.op = "backup_state"]
                /\ hist' = IF hist.phase = "saved" THEN [hist EXCEPT !.phase = "backed"]
                           ELSE NoHist
                /\ UNCHANGED backups
           ELSE /\ backups' = [n \in DOMAIN backups \cup {backup_path} |->
                                 IF n = backup_path THEN payload ELSE backups[n]]
                /\ ret' = [NoRet EXCEPT !.op = "backup_state", !.created = <<backup_path>>]
                /\ hist' = IF hist.phase = "saved"
                           THEN [hist EXCEPT !.phase = "backed", !.created = TRUE]
                           ELSE NoHist
    /\ UNCHANGED <<tasksFile, catsFile, logFile, today, pc, frame>>
    /\ UNCHANGED taskVars
    /\ UNCHANGED mainVars

(***************************************************************************)
(* The environment: the clock and writers other than the program           *)
(***************************************************************************)
LastDay == AddDays(StartDate, MaxDays)

\* midnight passes
DayTick ==
    /\ pc = "idle"
    /\ today /= LastDay
    /\ today' = NextDay(today)
    /\ ret' = NoRet
    /\ hist' = IF hist.phase \in {"saved", "backed", "corrupted"} THEN hist ELSE NoHist
    /\ tret' = [op |-> "none", id |-> <<>>, found |-> FALSE, changed |-> <<>>,
                repeat |-> FALSE, prior |-> <<>>, arg |-> <<>>, out |-> 0]
    /\ pure' = NoPure
    /\ UNCHANGED memTasks
    /\ UNCHANGED <<tasksFile, catsFile, logFile, backups, pc, frame>>
    /\ UNCHANGED mainVars

\* tasks.json is overwritten from outside
CorruptTasksFile(doc) ==
    /\ pc = "idle"
    /\ tasksFile /= doc
    /\ tasksFile' = doc
    /\ ret' = NoRet
    /\ hist' = IF hist.phase = "backed" /\ doc.kind \notin {"garbage", "list"}
               THEN [hist EXCEPT !.phase = "corrupted"]
               ELSE NoHist
    /\ UNCHANGED <<catsFile, logFile, backups, today, pc, frame>>
    /\ UNCHANGED taskVars
    /\ UNCHANGED mainVars

\* categories.json is overwritten from outside with a document that is no list
CorruptCatsFile ==
    /\ pc = "idle"
    /\ catsFile /= JDict([not |-> "a list"])
    /\ catsFile' = JDict([not |-> "a list"])
    /\ ret' = NoRet
    /\ hist' = NoHist
    /\ UNCHANGED <<tasksFile, logFile, backups, today, pc, frame>>
    /\ UNCHANGED taskVars
    /\ UNCHANGED mainVars

\* a malformed line gets into activity.log
CorruptLogFile ==
    /\ pc = "idle"
    /\ logFile.kind = "lines"
    /\ Cardinality({i \in 1..Len(logFile.val) : logFile.val[i] = LineBad}) < MaxBadLines
    /\ logFile' = LogLines(Append(logFile.val, LineBad))
    /\ ret' = NoRet
    /\ hist' = NoHist
    /\ UNCHANGED <<tasksFile, catsFile, backups, today, pc, frame>>
    /\ UNCHANGED taskVars
    /\ UNCHANGED mainVars

\* a snapshot becomes unreadable
CorruptBackup(n) ==
    /\ pc = "idle"
    /\ backups[n] /= FileGarbage
    /\ backups' = [backups EXCEPT ![n] = FileGarbage]
    /\ ret' = NoRet
    /\ hist' = NoHist
    /\ UNCHANGED <<tasksFile, catsFile, logFile, today, pc, frame>>
    /\ UNCHANGED taskVars
    /\ UNCHANGED mainVars

StoreNext ==
    \/ \E in \in SaveInputs : SaveState(in)
    \/ SaveWriteCats
    \/ SaveWriteLog
    \/ LoadState
    \/ RestoreWriteCats
    \/ RestoreWriteLog
    \/ Interrupt
    \/ BackupState
    \/ DayTick
    \/ \E doc \in CorruptDocs : CorruptTasksFile(doc)
    \/ CorruptCatsFile
    \/ CorruptLogFile
    \/ \E n \in DOMAIN backups : CorruptBackup(n)


(***************************************************************************)
(* tasks.py: strings, dates and the normalisers                            *)
(***************************************************************************)
UpperChars == <<"A", "B", "C", "D", "E", "F", "G", "H", "I", "J", "K", "L", "M",
                "N", "O", "P", "Q", "R", "S", "T", "U", "V", "W", "X", "Y", "Z">>
LowerChars == <<"a", "b", "c", "d", "e", "f", "g", "h", "i", "j", "k", "l", "m",
                "n", "o", "p", "q", "r", "s", "t", "u", "v", "w", "x", "y", "z">>

LowerChar ==
    [c \in {Ascii[i] : i \in 1..Len(Ascii)} |->
        IF \E i \in 1..Len(UpperChars) : UpperChars[i] = c
        THEN LowerChars[CHOOSE i \in 1..Len(UpperChars) : UpperChars[i] = c]
        ELSE c]

\* str.lower()
Lower(s) == [i \in 1..Len(s) |-> LowerChar[s[i]]]

Whitespace == {" "}

RECURSIVE LStrip(_)
LStrip(s) == IF s /= <<>> /\ Head(s) \in Whitespace THEN LStrip(Tail(s)) ELSE s

RECURSIVE RStrip(_)
RStrip(s) ==
    IF s /= <<>> /\ s[Len(s)] \in Whitespace THEN RStrip(SubSeq(s, 1, Len(s) - 1)) ELSE s

\* str.strip()
Strip(s) == RStrip(LStrip(s))

\* str.split(sep) for a one-character separator
RECURSIVE Split(_, _)
Split(s, sep) ==
    IF \A i \in 1..Len(s) : s[i] /= sep THEN <<s>>
    ELSE LET k == CHOOSE i \in 1..Len(s) : s[i] = sep /\ \A j \in 1..(i - 1) : s[j] /= sep
         IN  <<SubSeq(s, 1, k - 1)>> \o Split(SubSeq(s, k + 1, Len(s)), sep)

DigitValue(c) == (CHOOSE i \in 1..Len(DigitChars) : DigitChars[i] = c) - 1

RECURSIVE DigitsValue(_)
DigitsValue(s) ==
    IF s = <<>> THEN 0 ELSE 10 * DigitsValue(SubSeq(s, 1, Len(s) - 1)) + DigitValue(s[Len(s)])

\* int(s) succeeds: surrounding whitespace is allowed, then decimal digits only
\* (the model's strings hold no sign and no underscore between digits)
IntParses(s) ==
    /\ Strip(s) /= <<>>
    /\ \A i \in 1..Len(Strip(s)) : \E j \in 1..Len(DigitChars) : DigitChars[j] = Strip(s)[i]

IntOf(s) == DigitsValue(Strip(s))

\* datetime.date(y, m, d) does not raise
DateValid(y, m, d) ==
    /\ 1 <= y /\ y <= 9999
    /\ 1 <= m /\ m <= 12
    /\ 1 <= d /\ d <= DaysInMonth(y, m)

\* None, or the date as <<y, m, d>>
parse_date_yyyy_mm_dd(s) ==
    LET s2 == Strip(s)
        parts == Split(s2, "-")
    IN  IF s2 = <<>> THEN None
        ELSE IF Len(parts) /= 3 THEN None
        ELSE IF ~(IntParses(parts[1]) /\ IntParses(parts[2]) /\ IntParses(parts[3])) THEN None
        ELSE IF ~DateValid(IntOf(parts[1]), IntOf(parts[2]), IntOf(parts[3])) THEN None
        ELSE <<IntOf(parts[1]), IntOf(parts[2]), IntOf(parts[3])>>

\* date < date
DateLess(a, b) ==
    \/ a[1] < b[1]
    \/ a[1] = b[1] /\ a[2] < b[2]
    \/ a[1] = b[1] /\ a[2] = b[2] /\ a[3] < b[3]

\* "not x" for a string or None
Falsy(x) == x = <<>>

normalize_priority(p) ==
    IF Falsy(p) THEN Str_Medium
    ELSE LET p2 == Lower(Strip(p))
         IN  IF p2 \in {<<"l", "o", "w">>, <<"l">>} THEN Str_Low
             ELSE IF p2 \in {<<"m", "e", "d", "i", "u", "m">>, <<"m", "e", "d">>,
                    <<"m">>} THEN Str_Medium
             ELSE IF p2 \in {<<"h", "i", "g", "h">>, <<"h">>} THEN Str_High
             ELSE Str_Medium

\* normalize_status without the final default: unknown text is kept as typed
normalize_status_NoDefault(s) ==
    IF Falsy(s) THEN Str_Pending
    ELSE LET x == Lower(Strip(s))
         IN  IF x \in {<<"p", "e", "n", "d", "i", "n", "g">>, <<"p">>} THEN Str_Pending
             ELSE IF x \in {<<"d", "o", "n", "e">>, <<"d">>} THEN Str_Done
             ELSE Strip(s)

normalize_status(s) ==
    IF Falsy(s) THEN Str_Pending
    ELSE LET x == Lower(Strip(s))
         IN  IF x \in {<<"p", "e", "n", "d", "i", "n", "g">>, <<"p">>,
                    <<"t", "o", "d", "o">>, <<"t", "o", "-", "d", "o">>}
             THEN Str_Pending
             ELSE IF x \in {<<"i", "n", " ", "p", "r", "o", "g", "r", "e", "s", "s">>,
                    <<"p", "r", "o", "g", "r", "e", "s", "s">>, <<"i", "p">>,
                    <<"d", "o", "i", "n", "g">>}
             THEN Str_InProgress
             ELSE IF x \in {<<"d", "o", "n", "e">>,
                    <<"c", "o", "m", "p", "l", "e", "t", "e", "d">>,
                    <<"c", "o", "m", "p", "l", "e", "t", "e">>, <<"d">>}
             THEN Str_Done
             ELSE IF x \in {<<"a", "r", "c", "h", "i", "v", "e", "d">>,
                    <<"a", "r", "c", "h", "i", "v", "e">>, <<"a">>}
             THEN Str_Archived
             ELSE IF x \in {<<"o", "v", "e", "r", "d", "u", "e">>, <<"l", "a", "t", "e">>, <<"o">>}
             THEN Str_Overdue
             ELSE Str_Pending

(***************************************************************************)
(* tasks.py: the task model.  A task is a record (a dict); the collection  *)
(* is a sequence of tasks.                                                 *)
(***************************************************************************)
\* datetime.now().isoformat(timespec="seconds"); the model's clock advances by
\* whole days, so a timestamp is the date it was taken on
_now_iso == today

OptionalKeys == {"tags", "subtasks", "completed_at", "archived_at"}

\* the setdefault calls: "" for a required field, [] for tags and subtasks, None
\* for completed_at and archived_at (all of them the empty sequence here)
WithDefaults(task) ==
    [k \in DOMAIN task \cup Required \cup OptionalKeys |->
        IF k \in DOMAIN task THEN task[k] ELSE <<>>]

_ensure_task_defaults(task) ==
    LET t == WithDefaults(task)
    IN  [t EXCEPT !.priority = normalize_priority(t.priority),
                  !.status = normalize_status(t.status),
                  !.due_date = Strip(t.due_date)]

\* uuid.uuid4().hex[:8]: the identifiers the generator can produce
IdSpace == {<<"a", "1">>, <<"b", "2">>}

\* ensure_unique_id without the loop: whatever _new_id gave
ensure_unique_id_NoRetry(coll) == IdSpace

\* the values ensure_unique_id can return: the loop ends on an id no task has
ensure_unique_id(coll) == {id \in IdSpace : \A i \in 1..Len(coll) : coll[i].id /= id}

\* _find_task that falls back to the first task
_find_task_OrFirst(coll, task_id) ==
    IF \E i \in 1..Len(coll) : coll[i].id = task_id
    THEN CHOOSE i \in 1..Len(coll) :
            coll[i].id = task_id /\ \A j \in 1..(i - 1) : coll[j].id /= task_id
    ELSE IF coll /= <<>> THEN 1 ELSE 0

\* index of the first task with the id, 0 for None
_find_task(coll, task_id) ==
    IF \E i \in 1..Len(coll) : coll[i].id = task_id
    THEN CHOOSE i \in 1..Len(coll) :
            coll[i].id = task_id /\ \A j \in 1..(i - 1) : coll[j].id /= task_id
    ELSE 0

\* x or default
OrDefault(x, default) == IF Falsy(x) THEN default ELSE x

\* create_task that leaves the two timestamps out of the task
create_task_NoTimestamps(task_data, id) ==
    [id |-> id,
     title |-> OrDefault(Strip(Get(task_data, "title", <<>>)), Str_Untitled),
     description |-> Strip(Get(task_data, "description", <<>>)),
     category |-> OrDefault(Strip(Get(task_data, "category", Str_Uncategorized)),
                            Str_Uncategorized),
     priority |-> normalize_priority(Get(task_data, "priority", Str_Medium)),
     status |-> normalize_status(Get(task_data, "status", Str_Pending)),
     due_date |-> Strip(Get(task_data, "due_date", <<>>)),
     tags |-> Get(task_data, "tags", <<>>),
     subtasks |-> <<>>,
     completed_at |-> None,
     archived_at |-> None]

\* the task create_task builds and appends
create_task(task_data, id) ==
    _ensure_task_defaults(
        [id |-> id,
         title |-> OrDefault(Strip(Get(task_data, "title", <<>>)), Str_Untitled),
         description |-> Strip(Get(task_data, "description", <<>>)),
         category |-> OrDefault(Strip(Get(task_data, "category", Str_Uncategorized)),
                                Str_Uncategorized),
         priority |-> normalize_priority(Get(task_data, "priority", Str_Medium)),
         status |-> normalize_status(Get(task_data, "status", Str_Pending)),
         due_date |-> Strip(Get(task_data, "due_date", <<>>)),
         created_at |-> _now_iso,
         updated_at |-> _now_iso,
         tags |-> Get(task_data, "tags", <<>>),
         subtasks |-> <<>>,
         completed_at |-> None,
         archived_at |-> None])

Updatable == {"title", "description", "category", "priority", "status", "due_date"}

\* the loop over every key of the updates instead of the six updatable ones
ApplyFieldsAnyKey(t, updates) ==
    [k \in DOMAIN t |->
        IF k \in DOMAIN updates
        THEN LET val == Strip(updates[k])
             IN  IF k = "priority" THEN normalize_priority(val)
                 ELSE IF k = "status" THEN normalize_status(val)
                 ELSE IF k = "due_date" THEN Strip(val)
                 ELSE IF k = "category" THEN OrDefault(Strip(val), Str_Uncategorized)
                 ELSE IF k = "title" THEN OrDefault(Strip(val), Str_Untitled)
                 ELSE val
        ELSE t[k]]

\* the loop over the updatable keys
ApplyFields(t, updates) ==
    [k \in DOMAIN t |->
        IF k \in Updatable /\ k \in DOMAIN updates
        THEN LET val == Strip(updates[k])
             IN  IF k = "priority" THEN normalize_priority(val)
                 ELSE IF k = "status" THEN normalize_status(val)
                 ELSE IF k = "due_date" THEN Strip(val)
                 ELSE IF k = "category" THEN OrDefault(Strip(val), Str_Uncategorized)
                 ELSE IF k = "title" THEN OrDefault(Strip(val), Str_Untitled)
                 ELSE val
        ELSE t[k]]

\* completion timestamps
StampCompleted(t) ==
    LET t1 == IF t.status = Str_Done /\ Falsy(t.completed_at)
              THEN [t EXCEPT !.completed_at = _now_iso] ELSE t
    IN  IF t1.status /= Str_Done THEN [t1 EXCEPT !.completed_at = None] ELSE t1

\* archive timestamps
StampArchived(t) ==
    LET t1 == IF t.status = Str_Archived /\ Falsy(t.archived_at)
              THEN [t EXCEPT !.archived_at = _now_iso] ELSE t
    IN  IF t1.status /= Str_Archived THEN [t1 EXCEPT !.archived_at = None] ELSE t1

\* update_task on the task it found
UpdatedTask(t, updates) ==
    LET t1 == ApplyFields(t, updates)
        t2 == [t1 EXCEPT !.updated_at = _now_iso]
    IN  _ensure_task_defaults(StampArchived(StampCompleted(t2)))

\* the collection after update_task(tasks, task_id, updates)
update_task(coll, task_id, updates) ==
    LET i == _find_task(coll, task_id)
    IN  IF i = 0 THEN coll ELSE [coll EXCEPT ![i] = UpdatedTask(coll[i], updates)]

mark_task_status(coll, task_id, status) == update_task(coll, task_id, [status |-> status])

\* tasks.pop(i) for the first task with the id
delete_task(coll, task_id) ==
    LET i == _find_task(coll, task_id)
    IN  IF i = 0 THEN coll ELSE SubSeq(coll, 1, i - 1) \o SubSeq(coll, i + 1, Len(coll))

\* the loop body without the exemption of Done and Archived tasks
OverdueStepAnyStatus(t) ==
    LET t0 == _ensure_task_defaults(t)
        st == t0.status
        due == parse_date_yyyy_mm_dd(t0.due_date)
    IN  IF due /= None
        THEN IF DateLess(due, today)
             THEN IF st /= Str_Overdue
                  THEN [task |-> [t0 EXCEPT !.status = Str_Overdue, !.updated_at = _now_iso],
                        changed |-> TRUE]
                  ELSE [task |-> t0, changed |-> FALSE]
             ELSE IF st = Str_Overdue /\ ~DateLess(due, today)
                  THEN [task |-> [t0 EXCEPT !.status = Str_Pending, !.updated_at = _now_iso],
                        changed |-> TRUE]
                  ELSE [task |-> t0, changed |-> FALSE]
        ELSE [task |-> t0, changed |-> FALSE]

\* the loop body without the refresh of updated_at
OverdueStepStaleStamp(t) ==
    LET t0 == _ensure_task_defaults(t)
        st == t0.status
        due == parse_date_yyyy_mm_dd(t0.due_date)
    IN  IF due /= None
        THEN IF DateLess(due, today) /\ st \notin {Str_Done, Str_Archived}
             THEN IF st /= Str_Overdue
                  THEN [task |-> [t0 EXCEPT !.status = Str_Overdue], changed |-> TRUE]
                  ELSE [task |-> t0, changed |-> FALSE]
             ELSE IF st = Str_Overdue /\ ~DateLess(due, today)
                  THEN [task |-> [t0 EXCEPT !.status = Str_Pending], changed |-> TRUE]
                  ELSE [task |-> t0, changed |-> FALSE]
        ELSE [task |-> t0, changed |-> FALSE]

\* the loop body without the test that the task is not Overdue already
OverdueStepUnguarded(t) ==
    LET t0 == _ensure_task_defaults(t)
        st == t0.status
        due == parse_date_yyyy_mm_dd(t0.due_date)
    IN  IF due /= None
        THEN IF DateLess(due, today) /\ st \notin {Str_Done, Str_Archived}
             THEN [task |-> [t0 EXCEPT !.status = Str_Overdue, !.updated_at = _now_iso],
                   changed |-> TRUE]
             ELSE IF st = Str_Overdue /\ ~DateLess(due, today)
                  THEN [task |-> [t0 EXCEPT !.status = Str_Pending, !.updated_at = _now_iso],
                        changed |-> TRUE]
                  ELSE [task |-> t0, changed |-> FALSE]
        ELSE [task |-> t0, changed |-> FALSE]

\* the body of the loop of update_overdue_tasks for one task: the task as the loop
\* leaves it, and whether it was appended to changed
OverdueStep(t) ==
    LET t0 == _ensure_task_defaults(t)
        st == t0.status
        due == parse_date_yyyy_mm_dd(t0.due_date)
    IN  IF due /= None
        THEN IF DateLess(due, today) /\ st \notin {Str_Done, Str_Archived}
             THEN IF st /= Str_Overdue
                  THEN [task |-> [t0 EXCEPT !.status = Str_Overdue, !.updated_at = _now_iso],
                        changed |-> TRUE]
                  ELSE [task |-> t0, changed |-> FALSE]
             ELSE IF st = Str_Overdue /\ ~DateLess(due, today)
                  THEN [task |-> [t0 EXCEPT !.status = Str_Pending, !.updated_at = _now_iso],
                        changed |-> TRUE]
                  ELSE [task |-> t0, changed |-> FALSE]
        ELSE [task |-> t0, changed |-> FALSE]

\* the collection after update_overdue_tasks(tasks)
update_overdue_tasks(coll) == [i \in 1..Len(coll) |-> OverdueStep(coll[i]).task]

RECURSIVE ChangedFrom(_, _)
ChangedFrom(coll, i) ==
    IF i > Len(coll) THEN <<>>
    ELSE (IF OverdueStep(coll[i]).changed THEN <<i>> ELSE <<>>) \o ChangedFrom(coll, i + 1)

\* the list update_overdue_tasks returns, as the positions of its tasks in the collection
OverdueChanged(coll) == ChangedFrom(coll, 1)

\* the loop of set_task_tags: trim, drop what is empty, drop what was seen in
\* another case, keep the first spelling
RECURSIVE CleanFrom(_, _, _, _)
CleanFrom(tags, j, seen, clean) ==
    IF j > Len(tags) THEN clean
    ELSE LET s == Strip(tags[j])
             k == Lower(s)
         IN  IF s = <<>> THEN CleanFrom(tags, j + 1, seen, clean)
             ELSE IF k \in seen THEN CleanFrom(tags, j + 1, seen, clean)
             ELSE CleanFrom(tags, j + 1, seen \cup {k}, Append(clean, s))

CleanTags(tags) == CleanFrom(tags, 1, {}, <<>>)

\* set_task_tags without the seen set
set_task_tags_KeepDuplicates(coll, task_id, tags) ==
    LET i == _find_task(coll, task_id)
    IN  IF i = 0 THEN coll
        ELSE [coll EXCEPT ![i] = _ensure_task_defaults(
                 [coll[i] EXCEPT !.tags = SelectSeq([j \in 1..Len(tags) |-> Strip(tags[j])],
                                                    LAMBDA x : x /= <<>>),
                                 !.updated_at = _now_iso])]

\* the collection after set_task_tags(tasks, task_id, tags)
set_task_tags(coll, task_id, tags) ==
    LET i == _find_task(coll, task_id)
    IN  IF i = 0 THEN coll
        ELSE [coll EXCEPT ![i] = _ensure_task_defaults(
                 [coll[i] EXCEPT !.tags = CleanTags(tags), !.updated_at = _now_iso])]

\* the inner loop of bulk_reassign_tag that replaces the matching tags
RenamedTags(tags, old, new) ==
    [j \in 1..Len(tags) |-> IF Lower(Strip(tags[j])) = old THEN new ELSE tags[j]]

\* the "unique" loop of bulk_reassign_tag
RECURSIVE UniqFrom(_, _, _, _)
UniqFrom(out, j, seen, uniq) ==
    IF j > Len(out) THEN uniq
    ELSE LET k == Lower(Strip(out[j]))
         IN  IF k = <<>> \/ k \in seen THEN UniqFrom(out, j + 1, seen, uniq)
             ELSE UniqFrom(out, j + 1, seen \cup {k}, Append(uniq, Strip(out[j])))

\* one task of the loop of bulk_reassign_tag: the task as the loop leaves it and
\* whether it was counted
ReassignStep(t, old, new) ==
    LET t0 == _ensure_task_defaults(t)
        changed == \E j \in 1..Len(t0.tags) : Lower(Strip(t0.tags[j])) = old
        uniq == UniqFrom(RenamedTags(t0.tags, old, new), 1, {}, <<>>)
    IN  IF changed
        THEN [task |-> [t0 EXCEPT !.tags = uniq, !.updated_at = _now_iso], counted |-> 1]
        ELSE [task |-> t0, counted |-> 0]

RECURSIVE CountFrom(_, _, _, _)
CountFrom(coll, i, old, new) ==
    IF i > Len(coll) THEN 0
    ELSE ReassignStep(coll[i], old, new).counted + CountFrom(coll, i + 1, old, new)

\* bulk_reassign_tag that counts without renaming
bulk_reassign_tag_CountOnly(coll, old_tag, new_tag) ==
    LET old == Lower(Strip(old_tag))
        new == Strip(new_tag)
    IN  IF old = <<>> \/ new = <<>> THEN [tasks |-> coll, cnt |-> 0]
        ELSE [tasks |-> coll, cnt |-> CountFrom(coll, 1, old, new)]

\* bulk_reassign_tag(tasks, old_tag, new_tag): the collection it leaves and the
\* number it returns
bulk_reassign_tag(coll, old_tag, new_tag) ==
    LET old == Lower(Strip(old_tag))
        new == Strip(new_tag)
    IN  IF old = <<>> \/ new = <<>> THEN [tasks |-> coll, cnt |-> 0]
        ELSE [tasks |-> [i \in 1..Len(coll) |-> ReassignStep(coll[i], old, new).task],
              cnt |-> CountFrom(coll, 1, old, new)]

Str_UntitledSubtask == <<"U", "n", "t", "i", "t", "l", "e", "d", " ", "s", "u", "b", "t", "a", "s", "k">>

\* the collection after add_subtask(tasks, task_id, subtask_data), for the
\* identifier _new_id gave the subtask
add_subtask(coll, task_id, subtask_data, id) ==
    LET i == _find_task(coll, task_id)
        st == [id |-> id,
               title |-> OrDefault(Strip(Get(subtask_data, "title", <<>>)), Str_UntitledSubtask),
               status |-> normalize_status(Get(subtask_data, "status", Str_Pending)),
               created_at |-> _now_iso]
    IN  IF i = 0 THEN coll
        ELSE [coll EXCEPT ![i] = _ensure_task_defaults(
                 [coll[i] EXCEPT !.subtasks = Append(coll[i].subtasks, st),
                                 !.updated_at = _now_iso])]

(***************************************************************************)
(* tasks.py: the urgency ranking                                           *)
(***************************************************************************)
\* date.toordinal(): the days from 0001-01-01, that day being 1
DaysBeforeYear(y) == (y - 1) * 365 + ((y - 1) \div 4) - ((y - 1) \div 100) + ((y - 1) \div 400)

RECURSIVE DaysBeforeMonth(_, _)
DaysBeforeMonth(y, m) ==
    IF m = 1 THEN 0 ELSE DaysBeforeMonth(y, m - 1) + DaysInMonth(y, m - 1)

ToOrdinal(d) == DaysBeforeYear(d[1]) + DaysBeforeMonth(d[1], d[2]) + d[3]

\* (d - date.today()).days
DaysUntil(d) == ToOrdinal(d) - ToOrdinal(today)

\* max(0, x)
Max0(x) == IF x > 0 THEN x ELSE 0

\* urgency_score with the weight of Done added instead of subtracted
urgency_score_DoneBonus(task) ==
    LET t == _ensure_task_defaults(task)
        st == t.status
        pr == t.priority
        d == parse_date_yyyy_mm_dd(t.due_date)
        s1 == (IF st = Str_Overdue THEN 1000 ELSE 0)
              + (IF st = Str_Pending THEN 50 ELSE 0)
              + (IF st = Str_InProgress THEN 80 ELSE 0)
              + (IF st = Str_Done THEN 100 ELSE 0)
              - (IF st = Str_Archived THEN 200 ELSE 0)
        s2 == IF pr = Str_High THEN 100
              ELSE IF pr = Str_Medium THEN 50
              ELSE IF pr = Str_Low THEN 10
              ELSE 0
        s3 == IF d /= None
              THEN (IF DaysUntil(d) < 0 THEN 500 ELSE Max0(200 - DaysUntil(d) * 10))
              ELSE 0
    IN  s1 + s2 + s3

\* urgency_score with the decaying term not floored at 0
urgency_score_NoFloor(task) ==
    LET t == _ensure_task_defaults(task)
        st == t.status
        pr == t.priority
        d == parse_date_yyyy_mm_dd(t.due_date)
        s1 == (IF st = Str_Overdue THEN 1000 ELSE 0)
              + (IF st = Str_Pending THEN 50 ELSE 0)
              + (IF st = Str_InProgress THEN 80 ELSE 0)
              - (IF st = Str_Done THEN 100 ELSE 0)
              - (IF st = Str_Archived THEN 200 ELSE 0)
        s2 == IF pr = Str_High THEN 100
              ELSE IF pr = Str_Medium THEN 50
              ELSE IF pr = Str_Low THEN 10
              ELSE 0
        s3 == IF d /= None
              THEN (IF DaysUntil(d) < 0 THEN 500 ELSE 200 - DaysUntil(d) * 10)
              ELSE 0
    IN  s1 + s2 + s3

\* the score of the task; the call leaves the task with its defaults filled in
urgency_score(task) ==
    LET t == _ensure_task_defaults(task)
        st == t.status
        pr == t.priority
        d == parse_date_yyyy_mm_dd(t.due_date)
        s1 == (IF st = Str_Overdue THEN 1000 ELSE 0)
              + (IF st = Str_Pending THEN 50 ELSE 0)
              + (IF st = Str_InProgress THEN 80 ELSE 0)
              - (IF st = Str_Done THEN 100 ELSE 0)
              - (IF st = Str_Archived THEN 200 ELSE 0)
        s2 == IF pr = Str_High THEN 100
              ELSE IF pr = Str_Medium THEN 50
              ELSE IF pr = Str_Low THEN 10
              ELSE 0
        s3 == IF d /= None
              THEN (IF DaysUntil(d) < 0 THEN 500 ELSE Max0(200 - DaysUntil(d) * 10))
              ELSE 0
    IN  s1 + s2 + s3

\* sorted(..., reverse=True) is stable: of the positions left, the first one with
\* the greatest key comes next
RECURSIVE SortedFrom(_, _)
SortedFrom(coll, left) ==
    IF left = {} THEN <<>>
    ELSE LET m == CHOOSE i \in left :
                     \A j \in left :
                         \/ urgency_score(coll[i]) > urgency_score(coll[j])
                         \/ urgency_score(coll[i]) = urgency_score(coll[j]) /\ i <= j
         IN  <<_ensure_task_defaults(coll[m])>> \o SortedFrom(coll, left \ {m})

\* the list sort_by_urgency returns: the tasks themselves, as urgency_score left them
sort_by_urgency(coll) == SortedFrom(coll, 1..Len(coll))

(***************************************************************************)
(* tasks.py: filtering                                                     *)
(***************************************************************************)
\* date <= date
DateLeq(a, b) == a = b \/ DateLess(a, b)

\* any(str(x).lower() == tg for x in (t.get("tags") or []))
has_tag(t, tg) == \E j \in 1..Len(t.tags) : Lower(t.tags[j]) = tg

\* ok_date of filter_tasks_advanced with the upper bound exclusive
ok_date_Exclusive(t, da, db) ==
    LET d == parse_date_yyyy_mm_dd(t.due_date)
    IN  IF d = None THEN FALSE
        ELSE IF da /= None /\ DateLess(d, da) THEN FALSE
        ELSE IF db /= None /\ DateLeq(db, d) THEN FALSE
        ELSE TRUE

\* ok_date of filter_tasks_advanced
ok_date(t, da, db) ==
    LET d == parse_date_yyyy_mm_dd(t.due_date)
    IN  IF d = None THEN FALSE
        ELSE IF da /= None /\ DateLess(d, da) THEN FALSE
        ELSE IF db /= None /\ DateLess(db, d) THEN FALSE
        ELSE TRUE

\* raw.split("..", 1): the text before the first ".." and the text after it
SplitDots(raw) ==
    LET at == {i \in 1..(Len(raw) - 1) : raw[i] = "." /\ raw[i + 1] = "."}
        k == CHOOSE i \in at : \A j \in at : i <= j
    IN  IF at = {} THEN <<raw>>
        ELSE <<SubSeq(raw, 1, k - 1), SubSeq(raw, k + 2, Len(raw))>>

\* filter_tasks that normalises the tasks of the caller's list instead of copies
filter_tasks_InPlace(coll, status, category, due_before) ==
    LET out0 == [i \in 1..Len(coll) |-> _ensure_task_defaults(coll[i])]
        s == Lower(Strip(status))
        out1 == IF Falsy(status) THEN out0
                ELSE SelectSeq(out0, LAMBDA t : Lower(Strip(t.status)) = s)
    IN  [out |-> out1, tasks |-> out0]

\* filter_tasks(tasks, status=, category=, due_before=): the list it returns and
\* the caller's list after the call (None and "" are both the empty sequence)
filter_tasks(coll, status, category, due_before) ==
    LET out0 == [i \in 1..Len(coll) |-> _ensure_task_defaults(coll[i])]
        s == Lower(Strip(status))
        out1 == IF Falsy(status) THEN out0
                ELSE SelectSeq(out0, LAMBDA t : Lower(Strip(t.status)) = s)
        c == Lower(Strip(category))
        out2 == IF Falsy(category) THEN out1
                ELSE SelectSeq(out1, LAMBDA t : Lower(Strip(t.category)) = c)
        raw == Strip(due_before)
        parts == SplitDots(raw)
        da == parse_date_yyyy_mm_dd(Strip(parts[1]))
        db == parse_date_yyyy_mm_dd(Strip(parts[Len(parts)]))
        ok_range(t) == LET d == parse_date_yyyy_mm_dd(t.due_date)
                       IN  d /= None /\ DateLeq(da, d) /\ DateLeq(d, db)
        ok_before(t) == LET d == parse_date_yyyy_mm_dd(t.due_date)
                        IN  d /= None /\ DateLeq(d, db)
        out3 == IF Falsy(due_before) THEN out2
                ELSE IF Len(parts) = 2
                THEN IF da /= None /\ db /= None THEN SelectSeq(out2, ok_range) ELSE out2
                ELSE IF db /= None THEN SelectSeq(out2, ok_before) ELSE out2
    IN  [out |-> out3, tasks |-> coll]

\* the list filter_tasks_advanced returns for the keyword arguments f (None and
\* "" are both the empty sequence): copies of the tasks with their defaults
filter_tasks_advanced(coll, f) ==
    LET out0 == [i \in 1..Len(coll) |-> _ensure_task_defaults(coll[i])]
        s == Lower(Strip(f.status))
        out1 == IF Falsy(f.status) THEN out0
                ELSE SelectSeq(out0, LAMBDA t : Lower(t.status) = s)
        c == Lower(Strip(f.category))
        out2 == IF Falsy(f.category) THEN out1
                ELSE SelectSeq(out1, LAMBDA t : Lower(t.category) = c)
        p == Lower(normalize_priority(f.priority))
        out3 == IF Falsy(f.priority) THEN out2
                ELSE SelectSeq(out2, LAMBDA t : Lower(t.priority) = p)
        tg == Lower(Strip(f.tag))
        out4 == IF Falsy(f.tag) THEN out3
                ELSE SelectSeq(out3, LAMBDA t : has_tag(t, tg))
        da == parse_date_yyyy_mm_dd(f.due_after)
        db == parse_date_yyyy_mm_dd(f.due_before)
    IN  IF da /= None \/ db /= None
        THEN SelectSeq(out4, LAMBDA t : ok_date(t, da, db))
        ELSE out4

(***************************************************************************)
(* categories.py.  A category is a record; the collection is a sequence.   *)
(***************************************************************************)
Str_Unnamed == <<"U", "n", "n", "a", "m", "e", "d">>

\* the identifiers _new_id gives a category: nothing keeps them apart
CatIdSpace == {<<"c", "1">>, <<"c", "2">>}

\* ignore_id is None (the empty sequence) or an id
_name_exists(categories, name, ignore_id) ==
    \E i \in 1..Len(categories) :
        /\ ~(~Falsy(ignore_id) /\ categories[i].id = ignore_id)
        /\ Lower(Strip(categories[i].name)) = Lower(Strip(name))

\* add_category for the identifier _new_id gave: the collection it leaves and
\* whether it returned the new category (None for a name that exists)
add_category(categories, category_data, id) ==
    LET name == OrDefault(Strip(Get(category_data, "name", <<>>)), Str_Unnamed)
        cat == [id |-> id, name |-> name,
                description |-> Strip(Get(category_data, "description", <<>>)),
                color |-> Strip(Get(category_data, "color", <<>>))]
    IN  IF _name_exists(categories, name, None)
        THEN [categories |-> categories, ok |-> FALSE]
        ELSE [categories |-> Append(categories, cat), ok |-> TRUE]

\* index of the first category with the id, 0 when there is none
FindCategory(categories, category_id) ==
    IF \E i \in 1..Len(categories) : categories[i].id = category_id
    THEN CHOOSE i \in 1..Len(categories) :
            categories[i].id = category_id /\ \A j \in 1..(i - 1) : categories[j].id /= category_id
    ELSE 0

update_category(categories, category_id, updates) ==
    LET i == FindCategory(categories, category_id)
        new_name == OrDefault(Strip(Get(updates, "name", <<>>)), Str_Unnamed)
        c == categories[i]
        c1 == IF "name" \in DOMAIN updates THEN [c EXCEPT !.name = new_name] ELSE c
        c2 == IF "description" \in DOMAIN updates
              THEN [c1 EXCEPT !.description = Strip(updates.description)] ELSE c1
        c3 == IF "color" \in DOMAIN updates
              THEN [c2 EXCEPT !.color = Strip(updates.color)] ELSE c2
    IN  IF i = 0 THEN [categories |-> categories, ok |-> FALSE]
        ELSE IF "name" \in DOMAIN updates /\ _name_exists(categories, new_name, category_id)
        THEN [categories |-> categories, ok |-> FALSE]
        ELSE [categories |-> [categories EXCEPT ![i] = c3], ok |-> TRUE]

\* delete_category that leaves the tasks alone
delete_category_NoCascade(categories, category_id, coll) ==
    LET idx == FindCategory(categories, category_id)
    IN  IF idx = 0 THEN [categories |-> categories, tasks |-> coll, ok |-> FALSE]
        ELSE [categories |-> SubSeq(categories, 1, idx - 1)
                             \o SubSeq(categories, idx + 1, Len(categories)),
              tasks |-> coll,
              ok |-> TRUE]

\* delete_category(categories, category_id, tasks): the two collections it leaves
\* and what it returns
delete_category(categories, category_id, coll) ==
    LET idx == FindCategory(categories, category_id)
        deleted_name == categories[idx].name
    IN  IF idx = 0 THEN [categories |-> categories, tasks |-> coll, ok |-> FALSE]
        ELSE [categories |-> SubSeq(categories, 1, idx - 1)
                             \o SubSeq(categories, idx + 1, Len(categories)),
              tasks |-> IF Falsy(deleted_name) THEN coll
                        ELSE [i \in 1..Len(coll) |->
                                 IF Strip(coll[i].category) = Strip(deleted_name)
                                 THEN [coll[i] EXCEPT !.category = Str_Uncategorized]
                                 ELSE coll[i]],
              ok |-> TRUE]

(***************************************************************************)
(* activity.py                                                             *)
(***************************************************************************)
\* make_event(action, task_id, summary); task_id is None or an id
make_event(action, task_id, summary) ==
    [timestamp |-> _now_iso, action |-> action, task_id |-> task_id, summary |-> summary]

\* json.dump of a list of dicts, and the list json.load gives back
ToDoc(coll) == JList([i \in 1..Len(coll) |-> JDict(coll[i])])
FromDoc(doc) == [i \in 1..Len(doc.val) |-> doc.val[i].val]

LineBlank == [kind |-> "blank", val |-> <<>>]

\* open(log_path, "a") and one line written
log_activity(file, event) ==
    IF file.kind = "missing" THEN LogLines(<<LineJson(JDict(event))>>)
    ELSE LogLines(Append(file.val, LineJson(JDict(event))))

\* load_activity that gives up at the first line it cannot parse
RECURSIVE load_activity_Abort(_)
load_activity_Abort(file) ==
    IF file.kind = "missing" THEN <<>>
    ELSE IF file.val = <<>> THEN <<>>
    ELSE IF Head(file.val).kind = "json"
    THEN <<Head(file.val).val.val>> \o load_activity_Abort(LogLines(Tail(file.val)))
    ELSE <<>>

\* load_activity: the lines that parse, blank lines and bad lines passed over
RECURSIVE load_activity(_)
load_activity(file) ==
    IF file.kind = "missing" THEN <<>>
    ELSE IF file.val = <<>> THEN <<>>
    ELSE IF Head(file.val).kind = "blank" THEN load_activity(LogLines(Tail(file.val)))
    ELSE IF Head(file.val).kind = "json"
    THEN <<Head(file.val).val.val>> \o load_activity(LogLines(Tail(file.val)))
    ELSE load_activity(LogLines(Tail(file.val)))

(***************************************************************************)
(* storage.py: the calls run to their end, on the three live files         *)
(***************************************************************************)
\* save_state that opens the log for appending
save_state_AppendLog(files, T, C, A) ==
    [tasks |-> _write_json(ToDoc(T)),
     cats |-> _write_json(ToDoc(C)),
     log |-> LogLines((IF files.log.kind = "missing" THEN <<>> ELSE files.log.val)
                      \o _write_activity_log(ToDoc(A)).val)]

\* the live files after save_state(base_dir, tasks, categories, activity_log):
\* each of them is opened with "w", what it held is gone
save_state(files, T, C, A) ==
    [tasks |-> _write_json(ToDoc(T)),
     cats |-> _write_json(ToDoc(C)),
     log |-> _write_activity_log(ToDoc(A))]

\* load_state: what it returns, the branch it took and the live files it leaves
load_state(files, dir) ==
    LET tasks == _safe_read_json(files.tasks, JList(<<>>))
        categories == _safe_read_json(files.cats, JList(<<>>))
        activity == _read_activity_log(files.log)
        backup == _latest_valid_backup(dir)
    IN  IF tasks /= JList(<<>>) /\ ~validate_task_schema(tasks)
        THEN IF backup /= JNone
             THEN [got |-> BackupFields(backup), path |-> "restored",
                   files |-> [tasks |-> _write_json(BackupFields(backup).tasks),
                              cats |-> _write_json(BackupFields(backup).categories),
                              log |-> _write_activity_log(BackupFields(backup).activity)]]
             ELSE [got |-> LoadClean(categories, activity), path |-> "clean", files |-> files]
        ELSE [got |-> LoadNormal(tasks, categories, activity), path |-> "normal",
              files |-> files]

\* the snapshot directory after backup_state
backup_state(files, dir) ==
    LET backup_path == BackupName(today)
        payload == JDict([tasks |-> _safe_read_json(files.tasks, JList(<<>>)),
                          categories |-> _safe_read_json(files.cats, JList(<<>>)),
                          activity |-> _read_activity_log(files.log)])
    IN  IF BackupExists(dir, backup_path) THEN dir
        ELSE [n \in DOMAIN dir \cup {backup_path} |->
                 IF n = backup_path THEN payload ELSE dir[n]]

(***************************************************************************)
(* The task operations as steps                                            *)
(***************************************************************************)
NoTRet == [op |-> "none", id |-> <<>>, found |-> FALSE, changed |-> <<>>,
           repeat |-> FALSE, prior |-> <<>>, arg |-> <<>>, out |-> 0]

Called(op, id, found) == [NoTRet EXCEPT !.op = op, !.id = id, !.found = found]

TaskInit ==
    /\ memTasks = <<>>
    /\ tret = NoTRet
    /\ pure = NoPure

CreateTask(task_data) ==
    /\ Len(memTasks) < MaxTasks
    /\ \E id \in ensure_unique_id(memTasks) :
          /\ memTasks' = Append(memTasks, create_task(task_data, id))
          /\ tret' = Called("create_task", id, TRUE)
    /\ pure' = NoPure
    /\ UNCHANGED storeVars
    /\ UNCHANGED mainVars

UpdateTask(task_id, updates) ==
    /\ memTasks' = update_task(memTasks, task_id, updates)
    /\ tret' = [Called("update_task", task_id, _find_task(memTasks, task_id) /= 0)
                    EXCEPT !.arg = updates]
    /\ pure' = NoPure
    /\ UNCHANGED storeVars
    /\ UNCHANGED mainVars

MarkTaskStatus(task_id, status) ==
    /\ memTasks' = mark_task_status(memTasks, task_id, status)
    /\ tret' = Called("mark_task_status", task_id, _find_task(memTasks, task_id) /= 0)
    /\ pure' = NoPure
    /\ UNCHANGED storeVars
    /\ UNCHANGED mainVars

DeleteTask(task_id) ==
    /\ memTasks' = delete_task(memTasks, task_id)
    /\ tret' = Called("delete_task", task_id, _find_task(memTasks, task_id) /= 0)
    /\ pure' = NoPure
    /\ UNCHANGED storeVars
    /\ UNCHANGED mainVars

UpdateOverdueTasks ==
    /\ memTasks' = update_overdue_tasks(memTasks)
    /\ tret' = [op |-> "update_overdue_tasks", id |-> <<>>, found |-> FALSE,
                changed |-> OverdueChanged(memTasks),
                repeat |-> tret.op = "update_overdue_tasks",
                prior |-> IF tret.op = "update_overdue_tasks" THEN tret.changed ELSE <<>>,
                arg |-> <<>>, out |-> 0]
    /\ pure' = NoPure
    /\ UNCHANGED storeVars
    /\ UNCHANGED mainVars

\* the identifiers _new_id gives a subtask: nothing keeps them apart from the
\* identifiers of the tasks
SubtaskIdSpace == {<<"a", "1">>}

AddSubtask(task_id, subtask_data) ==
    /\ LET i == _find_task(memTasks, task_id)
       IN  i /= 0 => Len(memTasks[i].subtasks) < MaxSubtasks
    /\ \E id \in SubtaskIdSpace :
          memTasks' = add_subtask(memTasks, task_id, subtask_data, id)
    /\ tret' = Called("add_subtask", task_id, _find_task(memTasks, task_id) /= 0)
    /\ pure' = NoPure
    /\ UNCHANGED storeVars
    /\ UNCHANGED mainVars

SetTaskTags(task_id, tags) ==
    /\ memTasks' = set_task_tags(memTasks, task_id, tags)
    /\ tret' = [Called("set_task_tags", task_id, _find_task(memTasks, task_id) /= 0)
                    EXCEPT !.arg = tags]
    /\ pure' = NoPure
    /\ UNCHANGED storeVars
    /\ UNCHANGED mainVars

BulkReassignTag(old_tag, new_tag) ==
    /\ memTasks' = bulk_reassign_tag(memTasks, old_tag, new_tag).tasks
    /\ tret' = [Called("bulk_reassign_tag", <<>>, FALSE)
                    EXCEPT !.arg = <<old_tag, new_tag>>,
                           !.out = bulk_reassign_tag(memTasks, old_tag, new_tag).cnt]
    /\ pure' = NoPure
    /\ UNCHANGED storeVars
    /\ UNCHANGED mainVars

(***************************************************************************)
(* The category operations as steps on the two in-memory collections; pure *)
(* holds the collections the call was given and what it left and returned  *)
(***************************************************************************)
AddCategory(category_data) ==
    /\ Len(memCats) < MaxCats
    /\ \E id \in CatIdSpace :
          LET r == add_category(memCats, category_data, id)
          IN  /\ memCats' = r.categories
              /\ pure' = Applied("add_category", [categories |-> memCats, data |-> category_data], r)
    /\ tret' = NoTRet
    /\ UNCHANGED <<memTasks, memActivity, sess>>
    /\ UNCHANGED storeVars

UpdateCategory(category_id, updates) ==
    /\ LET r == update_category(memCats, category_id, updates)
       IN  /\ memCats' = r.categories
           /\ pure' = Applied("update_category",
                              [categories |-> memCats, id |-> category_id, updates |-> updates], r)
    /\ tret' = NoTRet
    /\ UNCHANGED <<memTasks, memActivity, sess>>
    /\ UNCHANGED storeVars

DeleteCategory(category_id) ==
    /\ LET r == delete_category(memCats, category_id, memTasks)
       IN  /\ memCats' = r.categories
           /\ memTasks' = r.tasks
           /\ pure' = Applied("delete_category",
                              [categories |-> memCats, id |-> category_id, tasks |-> memTasks], r)
    /\ tret' = NoTRet
    /\ UNCHANGED <<memActivity, sess>>
    /\ UNCHANGED storeVars

(***************************************************************************)
(* create_task step by step: _new_id, the loop of ensure_unique_id, the    *)
(* append.  pure holds the call in progress: at "while" the candidate out  *)
(* is about to be tested against the ids read on entry                     *)
(***************************************************************************)
\* existing = {t.get("id") for t in tasks}
ExistingIds(coll) == {coll[i].id : i \in 1..Len(coll)}

\* create_task evaluates _new_id() and enters ensure_unique_id with what it gave
EnterUniqueId(id) ==
    /\ pure = NoPure
    /\ pure' = Applied("while", [existing |-> ExistingIds(memTasks), collided |-> FALSE], id)
    /\ tret' = NoTRet
    /\ UNCHANGED memTasks
    /\ UNCHANGED storeVars
    /\ UNCHANGED mainVars

\* the loop body that keeps the candidate instead of asking for a new one
RerollId_KeepCandidate(id) ==
    /\ pure.fn = "while"
    /\ pure.out \in pure.arg.existing
    /\ pure' = [pure EXCEPT !.arg.collided = TRUE]
    /\ tret' = NoTRet
    /\ UNCHANGED memTasks
    /\ UNCHANGED storeVars
    /\ UNCHANGED mainVars

\* while out in existing: out = _new_id(), for the id the generator gives
RerollId(id) ==
    /\ pure.fn = "while"
    /\ pure.out \in pure.arg.existing
    /\ pure' = [pure EXCEPT !.arg.collided = TRUE, !.out = id]
    /\ tret' = NoTRet
    /\ UNCHANGED memTasks
    /\ UNCHANGED storeVars
    /\ UNCHANGED mainVars

\* the loop test fails: return out
ReturnUniqueId ==
    /\ pure.fn = "while"
    /\ pure.out \notin pure.arg.existing
    /\ pure' = [pure EXCEPT !.fn = "ensure_unique_id"]
    /\ tret' = NoTRet
    /\ UNCHANGED memTasks
    /\ UNCHANGED storeVars
    /\ UNCHANGED mainVars

\* the rest of create_task: the task is built with the id and appended
AppendCreated(task_data) ==
    /\ pure.fn = "ensure_unique_id"
    /\ memTasks' = Append(memTasks, create_task(task_data, pure.out))
    /\ tret' = Called("create_task", pure.out, TRUE)
    /\ pure' = NoPure
    /\ UNCHANGED storeVars
    /\ UNCHANGED mainVars

(***************************************************************************)
(* main.py: a session.  The start-up and every branch of the menu loop is  *)
(* one step; the process is either not running or waiting at the menu.     *)
(***************************************************************************)
NoSess == [at |-> "off", op |-> "none", ok |-> FALSE, saved |-> FALSE, arg |-> <<>>]

\* what a branch of the menu leaves in sess
AtMenu(op, ok, saved, arg) == [at |-> "menu", op |-> op, ok |-> ok, saved |-> saved, arg |-> arg]

MainInit ==
    /\ memCats = <<>>
    /\ memActivity = <<>>
    /\ sess = NoSess


\* ",".join(tags)
RECURSIVE Join(_)
Join(tags) ==
    IF tags = <<>> THEN <<>>
    ELSE IF Len(tags) = 1 THEN tags[1]
    ELSE tags[1] \o <<",">> \o Join(Tail(tags))

\* str(n) for n >= 0
RECURSIVE Decimal(_)
Decimal(n) == IF n < 10 THEN <<DigitChars[n + 1]>> ELSE Decimal(n \div 10) \o <<DigitChars[(n % 10) + 1]>>

\* f"{old} -> {new} ({n} tasks)"
BulkSummary(old, new, n) ==
    old \o <<" ", "-", ">", " ">> \o new \o <<" ", "(">> \o Decimal(n)
        \o <<" ", "t", "a", "s", "k", "s", ")">>

\* log_activity called for each event in turn
RECURSIVE LogAll(_, _)
LogAll(file, events) ==
    IF events = <<>> THEN file ELSE LogAll(log_activity(file, Head(events)), Tail(events))

\* the three live files become what files says
FilesBecome(files) ==
    /\ tasksFile' = files.tasks
    /\ catsFile' = files.cats
    /\ logFile' = files.log

\* the tail of a branch that wrote the event to the log and left save_state out
Committed_NoSave(op, arg, T, C, ev) ==
    /\ Len(memActivity) < MaxEvents
    /\ memTasks' = T
    /\ memCats' = C
    /\ memActivity' = Append(memActivity, ev)
    /\ FilesBecome([LiveFiles EXCEPT !.log = log_activity(@, ev)])
    /\ sess' = AtMenu(op, TRUE, TRUE, arg)
    /\ tret' = NoTRet
    /\ pure' = NoPure
    /\ UNCHANGED <<backups, today, pc, frame, ret, hist>>

\* the tail every branch that changed something shares: the event goes to the
\* in-memory list and to the log, then save_state writes all three files
Committed(op, arg, T, C, ev) ==
    /\ Len(memActivity) < MaxEvents
    /\ memTasks' = T
    /\ memCats' = C
    /\ memActivity' = Append(memActivity, ev)
    /\ FilesBecome(save_state([LiveFiles EXCEPT !.log = log_activity(@, ev)],
                              T, C, Append(memActivity, ev)))
    /\ sess' = AtMenu(op, TRUE, TRUE, arg)
    /\ tret' = NoTRet
    /\ pure' = NoPure
    /\ UNCHANGED <<backups, today, pc, frame, ret, hist>>

\* the branch printed that nothing was found, or that the name exists, and went
\* back to the menu
Refused(op, arg) ==
    /\ sess' = AtMenu(op, FALSE, FALSE, arg)
    /\ tret' = NoTRet
    /\ pure' = NoPure
    /\ UNCHANGED <<memTasks, memCats, memActivity>>
    /\ UNCHANGED storeVars

\* main() up to the menu: load_state, backup_state, update_overdue_tasks and,
\* when a task changed, the events and save_state
Startup ==
    /\ sess.at = "off"
    /\ pc = "idle"
    /\ LET L == load_state(LiveFiles, backups)
           tasks0 == FromDoc(L.got.tasks)
           changed == OverdueChanged(tasks0)
           tasks1 == update_overdue_tasks(tasks0)
           events == [k \in 1..Len(changed) |->
                         make_event("auto_overdue", tasks1[changed[k]].id,
                                    tasks1[changed[k]].title)]
           categories == FromDoc(L.got.categories)
           activity == FromDoc(L.got.activity) \o events
       IN  /\ Len(activity) <= MaxEvents
           /\ backups' = backup_state(L.files, backups)
           /\ memTasks' = tasks1
           /\ memCats' = categories
           /\ memActivity' = activity
           /\ IF changed /= <<>>
              THEN FilesBecome(save_state([L.files EXCEPT !.log = LogAll(@, events)],
                                          tasks1, categories, activity))
              ELSE FilesBecome(L.files)
           /\ sess' = AtMenu("start", TRUE, changed /= <<>>, L.path)
    /\ tret' = NoTRet
    /\ pure' = NoPure
    /\ UNCHANGED <<today, pc, frame, ret, hist>>

\* choice 1
MenuAddTask(task_data) ==
    /\ sess.at = "menu"
    /\ Len(memTasks) < MaxTasks
    /\ \E id \in ensure_unique_id(memTasks) :
          LET t == create_task(task_data, id)
          IN  Committed("create_task", task_data, Append(memTasks, t), memCats,
                        make_event("create_task", t.id, t.title))

\* choice 4
MenuUpdateTask(tid, updates) ==
    /\ sess.at = "menu"
    /\ LET i == _find_task(memTasks, tid)
           T == update_task(memTasks, tid, updates)
       IN  IF i = 0 THEN Refused("update_task", tid)
           ELSE Committed("update_task", tid, T, memCats,
                          make_event("update_task", T[i].id, Str_updated))

\* choice 5
MenuMarkStatus(tid, st) ==
    /\ sess.at = "menu"
    /\ LET i == _find_task(memTasks, tid)
           T == mark_task_status(memTasks, tid, normalize_status(st))
       IN  IF i = 0 THEN Refused("mark_status", tid)
           ELSE Committed("mark_status", tid, T, memCats,
                          make_event("mark_status", T[i].id, T[i].status))

\* choice 6
MenuAddSubtask(tid, title) ==
    /\ sess.at = "menu"
    /\ LET i == _find_task(memTasks, tid)
       IN  IF i = 0 THEN Refused("add_subtask", tid)
           ELSE /\ Len(memTasks[i].subtasks) < MaxSubtasks
                /\ \E id \in SubtaskIdSpace :
                      Committed("add_subtask", tid,
                                add_subtask(memTasks, tid, [title |-> title], id), memCats,
                                make_event("add_subtask", tid, title))

\* choice 7, answered y and y
MenuDeleteTask(tid) ==
    /\ sess.at = "menu"
    /\ IF _find_task(memTasks, tid) = 0 THEN Refused("delete_task", tid)
       ELSE Committed("delete_task", tid, delete_task(memTasks, tid), memCats,
                      make_event("delete_task", tid, Str_deleted))

\* choice 7, answered n
MenuArchiveTask(tid) ==
    /\ sess.at = "menu"
    /\ IF _find_task(memTasks, tid) = 0 THEN Refused("archive_task", tid)
       ELSE Committed("archive_task", tid, mark_task_status(memTasks, tid, Str_Archived),
                      memCats, make_event("archive_task", tid, Str_archived))

\* choice 11 a
MenuAddCategory(category_data) ==
    /\ sess.at = "menu"
    /\ Len(memCats) < MaxCats
    /\ \E id \in CatIdSpace :
          LET r == add_category(memCats, category_data, id)
          IN  IF ~r.ok THEN Refused("add_category", category_data)
              ELSE Committed("add_category", category_data, memTasks, r.categories,
                             make_event("add_category", id, r.categories[Len(r.categories)].name))

\* choice 11 u
MenuUpdateCategory(cid, updates) ==
    /\ sess.at = "menu"
    /\ LET r == update_category(memCats, cid, updates)
       IN  IF ~r.ok THEN Refused("update_category", cid)
           ELSE Committed("update_category", cid, memTasks, r.categories,
                          make_event("update_category", cid, Str_updated))

\* choice 11 d
MenuDeleteCategory(cid) ==
    /\ sess.at = "menu"
    /\ LET r == delete_category(memCats, cid, memTasks)
       IN  IF ~r.ok THEN Refused("delete_category", cid)
           ELSE Committed("delete_category", cid, r.tasks, r.categories,
                          make_event("delete_category", cid, Str_deleted))

\* choice 12 a
MenuSetTags(tid, tags) ==
    /\ sess.at = "menu"
    /\ IF _find_task(memTasks, tid) = 0 THEN Refused("set_tags", tid)
       ELSE Committed("set_tags", tid, set_task_tags(memTasks, tid, tags), memCats,
                      make_event("set_tags", tid, Join(tags)))

\* choice 12 b
MenuBulkReassign(old, new) ==
    /\ sess.at = "menu"
    /\ LET r == bulk_reassign_tag(memTasks, old, new)
       IN  Committed("bulk_reassign_tag", <<old, new>>, r.tasks, memCats,
                     make_event("bulk_reassign_tag", None, BulkSummary(old, new, r.cnt)))

\* choice 13: the event list is read again from the log
MenuReport ==
    /\ sess.at = "menu"
    /\ memActivity' = load_activity(logFile)
    /\ sess' = AtMenu("report", TRUE, FALSE, LiveFiles.log)
    /\ tret' = NoTRet
    /\ pure' = NoPure
    /\ UNCHANGED <<memTasks, memCats>>
    /\ UNCHANGED storeVars

\* choice 14
MenuBackup ==
    /\ sess.at = "menu"
    /\ pc = "idle"
    /\ backups' = backup_state(LiveFiles, backups)
    /\ sess' = AtMenu("backup", TRUE, FALSE, <<>>)
    /\ tret' = NoTRet
    /\ pure' = NoPure
    /\ UNCHANGED <<memTasks, memCats, memActivity>>
    /\ UNCHANGED <<tasksFile, catsFile, logFile, today, pc, frame, ret, hist>>

\* choice 0, or the process is stopped at the menu: what was in memory is gone
MenuExit ==
    /\ sess.at = "menu"
    /\ sess' = NoSess
    /\ memTasks' = <<>>
    /\ memCats' = <<>>
    /\ memActivity' = <<>>
    /\ tret' = NoTRet
    /\ pure' = NoPure
    /\ UNCHANGED storeVars

\* a line that is no JSON, or an empty line, gets into activity.log from outside
GarbleLog(line) ==
    /\ pc = "idle"
    /\ logFile.kind = "lines"
    /\ Cardinality({i \in 1..Len(logFile.val) : logFile.val[i].kind /= "json"}) < MaxBadLines
    /\ logFile' = LogLines(Append(logFile.val, line))
    /\ UNCHANGED <<tasksFile, catsFile, backups, today, pc, frame, ret, hist>>
    /\ UNCHANGED taskVars
    /\ UNCHANGED mainVars

(***************************************************************************)
(* Inputs of the lifecycle specification                                   *)
(***************************************************************************)
StatusInputs == {<<" ", "D", "O", "N", "E", " ">>, <<"a", "r", "c", "h", "i", "v", "e">>, <<"l", "a", "t", "e">>, <<"i", "p">>, <<"x", "y", "z">>}

\* text that is no date, and the first day of the session (an update can also
\* clear the due date)
DueInputs == {<<"s", "o", "o", "n">>, <<" ", "2", "0", "2", "4", "-", "1", "2", "-", "3", "1">>}

LifeCreateInputs ==
    {[title |-> <<" ", "X">>, status |-> s, due_date |-> d, tags |-> <<<<"t">>>>] :
        s \in StatusInputs, d \in DueInputs}

LifeUpdateInputs ==
    {[due_date |-> d] : d \in DueInputs}
    \cup {[status |-> <<" ", "D", "O", "N", "E", " ">>, due_date |-> <<>>]}
    \cup {[description |-> <<>>, id |-> <<"z">>, created_at |-> <<>>, tags |-> <<>>,
            notes |-> <<"n">>]}

LifeNext ==
    \/ \E task_data \in LifeCreateInputs : CreateTask(task_data)
    \/ \E task_id \in IdSpace, updates \in LifeUpdateInputs : UpdateTask(task_id, updates)
    \/ \E task_id \in IdSpace, status \in StatusInputs : MarkTaskStatus(task_id, status)
    \/ \E task_id \in IdSpace : DeleteTask(task_id)
    \/ UpdateOverdueTasks
    \/ DayTick

(***************************************************************************)
(* Free text through the normalisers and the task operations               *)
(***************************************************************************)
NormalizePriority(p) ==
    /\ pure' = Applied("normalize_priority", p, normalize_priority(p))
    /\ tret' = NoTRet
    /\ UNCHANGED memTasks
    /\ UNCHANGED storeVars
    /\ UNCHANGED mainVars

NormalizeStatus(s) ==
    /\ pure' = Applied("normalize_status", s, normalize_status(s))
    /\ tret' = NoTRet
    /\ UNCHANGED memTasks
    /\ UNCHANGED storeVars
    /\ UNCHANGED mainVars

\* priority text: every word the code knows, other case, padding, nothing, garbage
PriorityTexts ==
    {<<"l", "o", "w">>, <<"l">>, <<"m", "e", "d", "i", "u", "m">>, <<"m", "e", "d">>,
     <<"m">>, <<"h", "i", "g", "h">>, <<"h">>, <<" ", "H", "I", "G", "H", " ">>,
     <<"L", "o", "w">>, <<"M", "E", "D", " ">>, <<>>, <<" ">>,
     <<"u", "r", "g", "e", "n", "t">>, <<"h", "i", " ", "g", "h">>, <<"l", "o">>}

\* status text, likewise
StatusTexts ==
    {<<"p", "e", "n", "d", "i", "n", "g">>, <<"p">>, <<"t", "o", "d", "o">>,
     <<"t", "o", "-", "d", "o">>,
     <<"i", "n", " ", "p", "r", "o", "g", "r", "e", "s", "s">>,
     <<"p", "r", "o", "g", "r", "e", "s", "s">>, <<"i", "p">>, <<"d", "o", "i", "n", "g">>,
     <<"d", "o", "n", "e">>, <<"c", "o", "m", "p", "l", "e", "t", "e", "d">>,
     <<"c", "o", "m", "p", "l", "e", "t", "e">>, <<"d">>,
     <<"a", "r", "c", "h", "i", "v", "e", "d">>, <<"a", "r", "c", "h", "i", "v", "e">>,
     <<"a">>, <<"o", "v", "e", "r", "d", "u", "e">>, <<"l", "a", "t", "e">>, <<"o">>,
     <<" ", "D", "O", "N", "E", " ">>,
     <<"I", "n", " ", "P", "r", "o", "g", "r", "e", "s", "s">>,
     <<"T", "O", "-", "D", "O">>, <<"A", "r", "c", "h", "i", "v", "e", " ">>, <<>>,
     <<" ">>, <<"x", "y", "z">>, <<"d", "o", "n">>,
     <<"i", "n", " ", " ", "p", "r", "o", "g", "r", "e", "s", "s">>}

\* the text handed to the task operations
FieldPriorities == {<<" ", "H", "I", "G", "H", " ">>, <<"l">>, <<"u", "r", "g", "e", "n", "t">>}

FieldStatuses == {<<" ", "D", "O", "N", "E", " ">>, <<"x", "y", "z">>, <<>>}

FieldCreateInputs ==
    {[priority |-> p, status |-> st] : p \in FieldPriorities, st \in FieldStatuses}

FieldUpdateInputs ==
    {[priority |-> p] : p \in FieldPriorities \cup {<<>>}}
    \cup {[status |-> st] : st \in FieldStatuses}

FieldsNext ==
    \/ \E p \in PriorityTexts : NormalizePriority(p)
    \/ \E st \in StatusTexts : NormalizeStatus(st)
    \/ \E task_data \in FieldCreateInputs : CreateTask(task_data)
    \/ \E task_id \in IdSpace, updates \in FieldUpdateInputs : UpdateTask(task_id, updates)
    \/ \E task_id \in IdSpace, status \in FieldStatuses : MarkTaskStatus(task_id, status)
    \/ UpdateOverdueTasks

(***************************************************************************)
(* Tags and subtasks                                                       *)
(***************************************************************************)
\* tag lists: none, two examples of the documentation, and one with other case,
\* padding and empty entries
TagLists ==
    {<<>>, <<<<"W", "o", "r", "k">>, <<"x">>>>, <<<<"p", "l", "a", "y">>>>,
     <<<<"a">>, <<"A">>, <<" ", "b", " ">>, <<>>, <<>>>>}

TagCreateInputs == {[title |-> <<"X">>, tags |-> tl] : tl \in TagLists}

\* old and new tag: a rename, a rename onto a tag the task has, an empty new tag,
\* an empty old tag
ReassignInputs ==
    {<<<<"w", "o", "r", "k">>, <<"j", "o", "b">>>>, <<<<" ", "A", " ">>, <<"b">>>>,
     <<<<"x">>, <<" ">>>>, <<<<" ">>, <<"q">>>>}

SubtaskInputs == {[title |-> <<" ", "s", " ">>]}

TagsNext ==
    \/ \E task_data \in TagCreateInputs : CreateTask(task_data)
    \/ \E task_id \in IdSpace, tl \in TagLists : SetTaskTags(task_id, tl)
    \/ \E r \in ReassignInputs : BulkReassignTag(r[1], r[2])
    \/ \E task_id \in IdSpace, subtask_data \in SubtaskInputs : AddSubtask(task_id, subtask_data)
    \/ \E task_id \in IdSpace : UpdateTask(task_id, [description |-> <<>>])
    \/ \E task_id \in IdSpace : MarkTaskStatus(task_id, <<"p">>)
    \/ \E task_id \in IdSpace : DeleteTask(task_id)
    \/ DayTick

(***************************************************************************)
(* The functions that read the collection: ranking, filtering, the schema  *)
(* check                                                                   *)
(***************************************************************************)
\* date.isoformat()
IsoFormat(d) == Pad(d[1], 4) \o <<"-">> \o Pad(d[2], 2) \o <<"-">> \o Pad(d[3], 2)

\* each of these calls is made from the menu, where no result is held
UrgencyScore(task) ==
    /\ pure = NoPure
    /\ pure' = Applied("urgency_score", task, urgency_score(task))
    /\ tret' = NoTRet
    /\ UNCHANGED memTasks
    /\ UNCHANGED storeVars
    /\ UNCHANGED mainVars

SortByUrgency(coll) ==
    /\ pure = NoPure
    /\ pure' = Applied("sort_by_urgency", coll, sort_by_urgency(coll))
    /\ tret' = NoTRet
    /\ UNCHANGED memTasks
    /\ UNCHANGED storeVars
    /\ UNCHANGED mainVars

\* the day before the session starts
DayBefore == <<2024, 12, 30>>

\* the days ahead at which the due-date term changes, and 30 days from each day
\* of the session
DueOffsets == {0, 1, 5, 6, 7, 19, 20, 21} \cup {30 + k : k \in 0..MaxDays}

\* due-date text: none, no date, a past day, and days ahead
RankDues ==
    {<<>>, <<"s", "o", "o", "n">>, IsoFormat(DayBefore)}
    \cup {IsoFormat(AddDays(StartDate, n)) : n \in DueOffsets}

RankStatuses ==
    {Str_Pending, Str_InProgress, Str_Done, Str_Archived, Str_Overdue,
     <<" ", "D", "O", "N", "E", " ">>}

RankTasks ==
    {[status |-> st, priority |-> pr, due_date |-> due] :
        st \in RankStatuses, pr \in {Str_Low, Str_Medium, Str_High}, due \in RankDues}

\* the six orders of three things
Perms3 == {p \in [1..3 -> 1..3] : \A i, j \in 1..3 : i /= j => p[i] /= p[j]}

\* collections of three High tasks in every order: one Overdue and past due, one
\* Pending and due about 30 days ahead, one Done with any due date
RankTriples ==
    {[i \in 1..3 |-> <<[status |-> Str_Overdue, priority |-> Str_High,
                         due_date |-> IsoFormat(DayBefore)],
                        [status |-> Str_Pending, priority |-> Str_High,
                         due_date |-> IsoFormat(AddDays(StartDate, n))],
                        [status |-> Str_Done, priority |-> Str_High, due_date |-> due]>>[p[i]]] :
        n \in {30 + k : k \in 0..MaxDays}, due \in RankDues, p \in Perms3}

FilterTasksAdvanced(coll, f) ==
    /\ pure = NoPure
    /\ pure' = Applied("filter_tasks_advanced", [tasks |-> coll, f |-> f],
                       filter_tasks_advanced(coll, f))
    /\ tret' = NoTRet
    /\ UNCHANGED memTasks
    /\ UNCHANGED storeVars
    /\ UNCHANGED mainVars

Str_Work == <<"W", "o", "r", "k">>

\* the bounds of the window the filters use
WindowFrom == StartDate
WindowTo == AddDays(StartDate, 5)

\* five tasks: due on the first and on the last day of the window, without a due
\* date, with text that is no date, and due the day after the window
FilterTasks5 ==
    << [SampleTask(<<"a", "1">>, <<"X">>) EXCEPT
            !.category = Str_Work, !.priority = Str_High,
            !.tags = <<<<"a">>, <<"B">>>>, !.due_date = IsoFormat(WindowFrom)],
       [SampleTask(<<"b", "2">>, <<"Y">>) EXCEPT
            !.category = <<"w", "o", "r", "k">>, !.status = Str_Done,
            !.tags = <<<<"A">>>>, !.due_date = IsoFormat(WindowTo)],
       [SampleTask(<<"c", "3">>, <<"Z">>) EXCEPT !.priority = Str_High],
       [SampleTask(<<"d", "4">>, <<"V">>) EXCEPT
            !.category = Str_Work, !.status = Str_Done, !.priority = Str_High,
            !.tags = <<<<"a">>>>, !.due_date = <<"s", "o", "o", "n">>],
       [SampleTask(<<"e", "5">>, <<"W">>) EXCEPT
            !.category = Str_Work, !.priority = Str_Low,
            !.tags = <<<<"b">>>>, !.due_date = IsoFormat(AddDays(WindowTo, 1))] >>

\* two records as a caller can hand them over: fields missing, text not normalised
FilterTasksRaw ==
    << [title |-> <<"R">>, status |-> <<"d">>, due_date |-> <<" ">> \o IsoFormat(DayBefore)],
       [title |-> <<"S">>, priority |-> <<"h">>, tags |-> <<<<"A">>>>] >>

FilterColls == {FilterTasks5, FilterTasksRaw}

\* keyword arguments: absent, a value in another case or padded, text that is
\* unknown or no date
FilterArgs ==
    {[status |-> st, category |-> cat, priority |-> pr, tag |-> tg,
      due_after |-> da, due_before |-> db] :
        st \in {None, <<"d", "o", "n", "e">>, <<" ", "P", "e", "n", "d", "i", "n", "g", " ">>},
        cat \in {None, <<"W", "O", "R", "K">>},
        pr \in {None, <<"h">>, <<"u", "r", "g", "e", "n", "t">>},
        tg \in {None, <<" ", "A">>},
        da \in {None, IsoFormat(WindowFrom), <<"s", "o", "o", "n">>},
        db \in {None, IsoFormat(WindowTo), <<"s", "o", "o", "n">>}}

\* filter_tasks on a collection the caller holds
FilterTasks(coll, status, category, due_before) ==
    /\ pure = NoPure
    /\ pure' = Applied("filter_tasks",
                       [tasks |-> coll, status |-> status, category |-> category,
                        due_before |-> due_before],
                       filter_tasks(coll, status, category, due_before))
    /\ tret' = NoTRet
    /\ UNCHANGED memTasks
    /\ UNCHANGED storeVars
    /\ UNCHANGED mainVars

\* two Pending tasks and a Done task between them, built by create_task
FilterTasks3 ==
    << create_task([title |-> <<"T", "1">>, status |-> Str_Pending], <<"a", "1">>),
       create_task([title |-> <<"T", "2">>, status |-> Str_Done], <<"b", "2">>),
       create_task([title |-> <<"T", "3">>, status |-> Str_Pending], <<"c", "3">>) >>

\* status: absent, a name in another case, padded, an alias no task carries
FilterStatuses ==
    {None, Str_Pending, <<"d", "o", "n", "e">>, <<" ", "P", "E", "N", "D", "I", "N", "G", " ">>,
     <<"d">>}

\* due_before: absent, a day, a range, text that is no date
FilterDueBefore ==
    {None, IsoFormat(WindowTo),
     IsoFormat(WindowFrom) \o <<".", ".">> \o IsoFormat(WindowTo), <<"s", "o", "o", "n">>}

ValidateTaskSchema(doc) ==
    /\ pure = NoPure
    /\ pure' = Applied("validate_task_schema", doc, validate_task_schema(doc))
    /\ tret' = NoTRet
    /\ UNCHANGED memTasks
    /\ UNCHANGED storeVars
    /\ UNCHANGED mainVars

\* a record with every required field whose priority, status and due date are
\* none of the values the task model produces
TaskOdd ==
    JDict([SampleTask(<<"b", "2">>, <<>>) EXCEPT
              !.priority = <<"u", "r", "g", "e", "n", "t">>, !.status = <<"x", "y", "z">>,
              !.due_date = <<"s", "o", "o", "n">>])

\* the required fields only
TaskBare == JDict([k \in Required |-> <<>>])

\* collections of records that have every required field
ValidDocs ==
    {JList(<<>>)}
    \cup {JList(<<r>>) : r \in {TaskX, TaskOdd, TaskBare}}
    \cup {JList(<<r1, r2>>) : r1, r2 \in {TaskX, TaskOdd}}

\* the record without field k
Without(rec, k) == JDict([x \in DOMAIN rec.val \ {k} |-> rec.val[x]])

\* a collection of ValidDocs with one required field removed from one record
DocsFieldRemoved ==
    {JList([doc.val EXCEPT ![i] = Without(doc.val[i], k)]) :
        doc \in {JList(<<r1, r2>>) : r1, r2 \in {TaskX, TaskOdd}}, i \in 1..2, k \in Required}
    \cup {JList(<<Without(r, k)>>) : r \in {TaskX, TaskOdd, TaskBare}, k \in Required}

\* documents that are no sequence, and sequences holding something that is no record
DocsNoSequence == {TaskX, JNum, JNone, JDict([tasks |-> JList(<<TaskX>>)])}

DocsNoRecord == {JList(<<JNum>>), JList(<<TaskX, JList(<<TaskX>>)>>)}

SchemaDocs == ValidDocs \cup DocsFieldRemoved \cup DocsNoSequence \cup DocsNoRecord

\* load_activity(log_path) on a log an outside writer may have damaged
LoadActivity(file) ==
    /\ pure = NoPure
    /\ pure' = Applied("load_activity", file, load_activity(file))
    /\ tret' = NoTRet
    /\ UNCHANGED memTasks
    /\ UNCHANGED storeVars
    /\ UNCHANGED mainVars

\* the activity load_state returns when activity.log holds file
LoadStateActivity(file) ==
    /\ pure = NoPure
    /\ pure' = Applied("load_state", file,
                       FromDoc(load_state([LiveFiles EXCEPT !.log = file], backups).got.activity))
    /\ tret' = NoTRet
    /\ UNCHANGED memTasks
    /\ UNCHANGED storeVars
    /\ UNCHANGED mainVars

\* load_state on a state root whose tasks.json and snapshot directory were left
\* by anyone: what it was given, what it returned
LoadStateFrom(file, dir) ==
    /\ pure = NoPure
    /\ pure' = Applied("load_state_from", [tasks |-> file, dir |-> dir],
                       load_state([LiveFiles EXCEPT !.tasks = file], dir))
    /\ tret' = NoTRet
    /\ UNCHANGED memTasks
    /\ UNCHANGED storeVars
    /\ UNCHANGED mainVars

\* tasks.json: absent, unparsable, valid collections, a collection with a record
\* lacking a field, a collection holding a number, documents that are no list
LoadTaskFiles ==
    {FileMissing, FileGarbage, JList(<<>>), JList(<<TaskX>>), JList(<<TaskX, TaskNoUpdated>>),
     JList(<<JNum>>), TaskX, JNum, JNone, JDict([tasks |-> JList(<<TaskX>>)])}

\* a snapshot: unparsable, no dict, a dict without "tasks", with tasks null, with
\* a record lacking a field, with a record for tasks, and two well-formed ones
SnapshotDocs ==
    {FileGarbage, JList(<<TaskX>>), JNum,
     JDict([categories |-> JList(<<CatSchool>>)]),
     JDict([tasks |-> JNone, categories |-> JList(<<>>), activity |-> JList(<<>>)]),
     JDict([tasks |-> JList(<<TaskX, TaskNoUpdated>>), categories |-> JList(<<>>),
            activity |-> JList(<<>>)]),
     JDict([tasks |-> TaskX, categories |-> JList(<<>>), activity |-> JList(<<>>)]),
     JDict([tasks |-> JList(<<TaskX>>), categories |-> JList(<<CatSchool>>),
            activity |-> JList(<<Event1>>)]),
     JDict([tasks |-> JList(<<>>), categories |-> JList(<<>>), activity |-> JList(<<>>)])}

\* the snapshot directory: no, one or two snapshots, each holding any of the above
LoadCatalogs ==
    UNION {[names -> SnapshotDocs] : names \in SUBSET {BackupName(StartDate), BackupName(LastDay)}}

\* the activity backup_state puts in today's snapshot when activity.log holds file
BackupStateActivity(file) ==
    /\ pure = NoPure
    /\ pure' = Applied("backup_state", file,
                       FromDoc(backup_state([LiveFiles EXCEPT !.log = file],
                                            backups)[BackupName(today)].val.activity))
    /\ tret' = NoTRet
    /\ UNCHANGED memTasks
    /\ UNCHANGED storeVars
    /\ UNCHANGED mainVars

\* lines of a log: two events, a line that is no JSON, an empty line
LogLineInputs ==
    {LineJson(JDict(make_event("create_task", <<"a", "1">>, <<"X">>))),
     LineJson(JDict(make_event("delete_task", <<"a", "1">>, Str_deleted))),
     LineBad, LineBlank}

MaxLines == 3

LogFileInputs ==
    {FileMissing} \cup {LogLines(ls) : ls \in UNION {[1..n -> LogLineInputs] : n \in 0..MaxLines}}

QueryNext ==
    \/ \E task \in RankTasks : UrgencyScore(task)
    \/ \E coll \in RankTriples : SortByUrgency(coll)
    \/ \E coll \in FilterColls, f \in FilterArgs : FilterTasksAdvanced(coll, f)
    \/ \E coll \in FilterColls \cup {FilterTasks3}, status \in FilterStatuses,
          category \in {None, <<"W", "O", "R", "K">>}, due_before \in FilterDueBefore :
            FilterTasks(coll, status, category, due_before)
    \/ \E doc \in SchemaDocs : ValidateTaskSchema(doc)
    \/ \E file \in LogFileInputs : LoadActivity(file)
    \/ \E file \in LogFileInputs : LoadStateActivity(file)
    \/ \E file \in LogFileInputs : BackupStateActivity(file)
    \/ \E file \in LoadTaskFiles, dir \in LoadCatalogs : LoadStateFrom(file, dir)
    \/ DayTick

(***************************************************************************)
(* Inputs of the session specification                                     *)
(***************************************************************************)
Str_School == <<"S", "c", "h", "o", "o", "l">>

\* what choice 1 passes on: the title and the category stripped, the due date
\* as input_due_date gives it
MainCreateInputs ==
    {[title |-> <<"X">>, description |-> <<>>, category |-> Str_School,
      priority |-> Str_High, due_date |-> IsoFormat(StartDate), tags |-> <<<<"t">>>>],
     [title |-> <<"Y">>, description |-> <<>>, category |-> Str_Work,
      priority |-> Str_Medium, due_date |-> <<>>, tags |-> <<>>]}

MainUpdateInputs == {[category |-> Str_School]}

MainStatusInputs == {<<"d", "o", "n", "e">>}

MainTagInputs == {<<<<"a">>, <<"b">>>>}

MainCategoryInputs ==
    {[name |-> n, description |-> <<>>, color |-> <<>>] : n \in {Str_School, Str_Work}}

MainCategoryUpdates == {[name |-> Str_Work]}

\* the document an outside writer leaves in tasks.json
MainCorruptDocs == {JDict([not |-> "a list"])}

MainNext ==
    \/ Startup
    \/ \E task_data \in MainCreateInputs : MenuAddTask(task_data)
    \/ \E tid \in IdSpace, updates \in MainUpdateInputs : MenuUpdateTask(tid, updates)
    \/ \E tid \in IdSpace, st \in MainStatusInputs : MenuMarkStatus(tid, st)
    \/ \E tid \in IdSpace : MenuAddSubtask(tid, <<"s">>)
    \/ \E tid \in IdSpace : MenuDeleteTask(tid)
    \/ \E tid \in IdSpace : MenuArchiveTask(tid)
    \/ \E category_data \in MainCategoryInputs : MenuAddCategory(category_data)
    \/ \E cid \in CatIdSpace, updates \in MainCategoryUpdates : MenuUpdateCategory(cid, updates)
    \/ \E cid \in CatIdSpace : MenuDeleteCategory(cid)
    \/ \E tid \in IdSpace, tags \in MainTagInputs : MenuSetTags(tid, tags)
    \/ MenuBulkReassign(<<"t">>, <<"u">>)
    \/ MenuExit
    \/ DayTick

\* the journal: sessions that add tasks, read the log and take snapshots, while
\* outside writers damage tasks.json and the log
JournalNext ==
    \/ Startup
    \/ \E task_data \in MainCreateInputs : MenuAddTask(task_data)
    \/ MenuReport
    \/ MenuBackup
    \/ MenuExit
    \/ \E line \in {LineBad, LineBlank} : GarbleLog(line)
    \/ \E doc \in MainCorruptDocs : CorruptTasksFile(doc)
    \/ DayTick

(***************************************************************************)
(* Inputs of the category specification                                    *)
(***************************************************************************)
CatsCreateInputs ==
    {[title |-> <<"X">>, category |-> c] :
        c \in {Str_School, <<" ">> \o Str_School, <<"s", "c", "h", "o", "o", "l">>, Str_Work}}

CatsCategoryInputs ==
    {[name |-> n] : n \in {Str_School, Str_School \o <<" ">>, Str_Work, <<>>}}

CatsCategoryUpdates == {[name |-> Str_Work], [name |-> <<" ">>], [color |-> <<"r", "e", "d">>]}

CatsNext ==
    \/ \E task_data \in CatsCreateInputs : CreateTask(task_data)
    \/ \E category_data \in CatsCategoryInputs : AddCategory(category_data)
    \/ \E cid \in CatIdSpace, updates \in CatsCategoryUpdates : UpdateCategory(cid, updates)
    \/ \E cid \in CatIdSpace : DeleteCategory(cid)

\* create_task in steps: the candidate id, the re-rolls, the return, the append
IdsNext ==
    \/ \E id \in IdSpace : EnterUniqueId(id)
    \/ \E id \in IdSpace : RerollId(id)
    \/ ReturnUniqueId
    \/ \E task_data \in LifeCreateInputs : AppendCreated(task_data)

(***************************************************************************)
(* Specifications                                                         *)
(***************************************************************************)
Init == StoreInit /\ TaskInit /\ MainInit

\* the state store: save, load, backup, the clock and outside writers
Next == StoreNext

Spec == Init /\ [][Next]_vars

\* the task lifecycle: create, update, mark, delete, overdue maintenance, the clock
SpecLife == Init /\ [][LifeNext]_vars

\* tags and subtasks next to create, update, mark and delete
SpecTags == Init /\ [][TagsNext]_vars

\* free text: the normalisers on their own and behind create, update and mark
SpecFields == Init /\ [][FieldsNext]_vars

\* the functions that read: urgency, sorting, filtering, the schema check
SpecQuery == Init /\ [][QueryNext]_vars

\* the categories next to the tasks that name them
SpecCats == Init /\ [][CatsNext]_vars

\* sessions of main(): the start-up, the branches of the menu, outside writers
SpecMain == Init /\ [][MainNext]_vars

\* the activity journal across sessions, snapshots and recovery
SpecJournal == Init /\ [][JournalNext]_vars

\* identifier generation: a call in progress goes on, and the generator gives
\* every id again and again while the loop asks
SpecIds ==
    /\ Init
    /\ [][IdsNext]_vars
    /\ WF_vars(ReturnUniqueId)
    /\ \A id \in IdSpace : SF_vars(RerollId(id))

(***************************************************************************)
(* Properties of the state store                                           *)
(***************************************************************************)
EmptyList == JList(<<>>)

\* the tasks document a load_state call read makes it try recovery
CorruptRead(file) ==
    /\ file.kind \notin {"missing", "garbage"}
    /\ file /= EmptyList
    /\ ~validate_task_schema(file)

\* a snapshot that parses and whose tasks field passes validate_task_schema
SnapshotValid(file) ==
    /\ file.kind = "dict"
    /\ "tasks" \in DOMAIN file.val => validate_task_schema(file.val.tasks)

ValidNames == {n \in DOMAIN backups : SnapshotValid(backups[n])}

\* the valid snapshot whose file name no other valid snapshot's name exceeds
GreatestValid == CHOOSE n \in ValidNames : \A m \in ValidNames : ~StrLess(n, m)

SnapshotHolds(file, triple) ==
    /\ file.kind = "dict"
    /\ DOMAIN file.val = {"tasks", "categories", "activity"}
    /\ file.val.tasks = triple.tasks
    /\ file.val.categories = triple.categories
    /\ file.val.activity = triple.activity

RetTriple == [tasks |-> ret.tasks, categories |-> ret.categories, activity |-> ret.activity]

\* C1 (as claimed): after save_state(T, C, A) of a well-formed T, backup_state and
\* an overwrite of tasks.json with a non-array document, the next load_state returns
\* T, whatever happened before, earlier backups of the same day included.
C1_AsClaimed ==
    (/\ hist.phase = "loaded_after_corrupt"
     /\ validate_task_schema(hist.T))
    => ret.tasks = hist.T

\* C1 (amended): after save_state(T, C, A) with T passing validate_task_schema, a
\* backup_state call that created a snapshot (none existed for that day) and an
\* overwrite of tasks.json with a non-array document, the next load_state returns T.
C1_RestoreAfterFreshBackup ==
    (/\ hist.phase = "loaded_after_corrupt"
     /\ hist.created
     /\ validate_task_schema(hist.T))
    => ret.tasks = hist.T

C1_Witness ==
    /\ hist.phase = "loaded_after_corrupt"
    /\ hist.created
    /\ validate_task_schema(hist.T)
    /\ hist.T /= EmptyList
    /\ ret.path = "restored"
    /\ Cardinality(DOMAIN backups) > 1

\* C2: load_state called directly after save_state(T, C, A), for T passing
\* validate_task_schema and lists C and A, returns exactly (T, C, A).
C2_RoundTrip ==
    (/\ hist.phase = "loaded_after_save"
     /\ validate_task_schema(hist.T)
     /\ IsList(hist.C)
     /\ IsList(hist.A))
    => /\ ret.tasks = hist.T
       /\ ret.categories = hist.C
       /\ ret.activity = hist.A

C2_Witness ==
    /\ hist.phase = "loaded_after_save"
    /\ validate_task_schema(hist.T)
    /\ hist.T /= EmptyList
    /\ hist.C /= EmptyList
    /\ hist.A /= EmptyList
    /\ ret.tasks = hist.T
    /\ ValidNames /= {}

\* C3 (as claimed): if load_state returns an empty task collection for a tasks file
\* that fails validation, no snapshot in the catalog holds a valid task collection
\* that it could have restored instead of the empty one.
C3_AsClaimed ==
    (/\ ret.op = "load_state"
     /\ CorruptRead(ret.read.tasks)
     /\ ret.tasks = EmptyList)
    => \A n \in ValidNames : BackupFields(backups[n]).tasks = EmptyList

\* C3 (amended): if load_state returns an empty task collection for a tasks file
\* that fails validation, either no valid snapshot exists, or it restored the valid
\* snapshot with the greatest file name and that snapshot's task collection is empty.
C3_EmptyOnlyWithoutBetter ==
    (/\ ret.op = "load_state"
     /\ CorruptRead(ret.read.tasks)
     /\ ret.tasks = EmptyList)
    => \/ ValidNames = {}
       \/ /\ SnapshotHolds(backups[GreatestValid], RetTriple)
          /\ tasksFile = EmptyList

C3_Witness ==
    /\ ret.op = "load_state"
    /\ CorruptRead(ret.read.tasks)
    /\ ret.tasks = EmptyList
    /\ ValidNames = {}
    /\ Cardinality(DOMAIN backups) > 1

\* C4: on recovery load_state restores the snapshot with the lexicographically
\* greatest file name among the snapshots whose tasks pass validate_task_schema;
\* unreadable or invalid snapshots with greater names are skipped.
C4_GreatestValidRestored ==
    (/\ ret.op = "load_state"
     /\ CorruptRead(ret.read.tasks)
     /\ ValidNames /= {})
    => /\ SnapshotHolds(backups[GreatestValid], RetTriple)
       /\ \A n \in ValidNames : n = GreatestValid \/ StrLess(n, GreatestValid)

C4_Witness ==
    /\ ret.op = "load_state"
    /\ CorruptRead(ret.read.tasks)
    /\ ValidNames /= {}
    /\ \E n \in DOMAIN backups : n \notin ValidNames /\ StrLess(GreatestValid, n)
    /\ ret.tasks /= EmptyList

\* some live files hold the snapshot's content and others the pre-recovery content
HalfRestored ==
    LET newT == tasksFile = _write_json(frame.tasks) /\ tasksFile /= frame.old.tasks
        oldC == catsFile = frame.old.cats /\ catsFile /= _write_json(frame.categories)
        oldL == logFile = frame.old.log /\ logFile /= _write_activity_log(frame.activity)
    IN  newT /\ (oldC \/ oldL)

\* C5 (as claimed): the recovery rewrites the three live files atomically: in no
\* state, a state between two file writes included, do some live files hold the
\* snapshot's content while others hold the pre-recovery content.
C5_AsClaimed ==
    pc \in {"restore_cats", "restore_log"} => ~HalfRestored

\* C5 (amended): the recovery rewrites tasks.json, categories.json and activity.log
\* one after the other; when load_state returns, the three live files and the
\* returned triple all equal the tasks, categories and activity of one snapshot.
C5_RestoredOnReturn ==
    ret.path = "restored"
    => /\ tasksFile = ret.tasks
       /\ catsFile = ret.categories
       /\ logFile.kind = "lines"
       /\ ParsedLines(logFile.val) = ret.activity.val
       /\ Len(logFile.val) = Len(ret.activity.val)
       /\ \E n \in DOMAIN backups : SnapshotHolds(backups[n], RetTriple)

C5_Witness ==
    /\ ret.path = "restored"
    /\ ret.read.cats /= catsFile
    /\ ret.read.log /= logFile
    /\ ret.tasks /= EmptyList

\* C6: when the tasks file is non-empty, fails validate_task_schema and no valid
\* snapshot exists, load_state returns an empty task collection with the categories
\* list of categories.json (empty when that file holds no list) and the well-formed
\* events of activity.log, and changes no file.
C6_CleanStartKeepsRest ==
    (/\ ret.op = "load_state"
     /\ CorruptRead(ret.read.tasks)
     /\ ValidNames = {})
    => /\ ret.tasks = EmptyList
       /\ ret.categories = (IF ret.read.cats.kind = "list" THEN ret.read.cats ELSE EmptyList)
       /\ ret.activity.kind = "list"
       /\ ret.activity.val = (IF ret.read.log.kind = "lines"
                              THEN ParsedLines(ret.read.log.val) ELSE <<>>)
       /\ LiveFiles = ret.read

C6_Witness ==
    /\ ret.op = "load_state"
    /\ CorruptRead(ret.read.tasks)
    /\ ValidNames = {}
    /\ ret.categories /= EmptyList
    /\ ret.activity /= EmptyList
    /\ \E i \in 1..Len(logFile.val) : logFile.val[i] = LineBad

\* the date part of a snapshot's file name
NameDay(n) == SubSeq(n, Len(NamePrefix) + 1, Len(NamePrefix) + 8)

\* C7: backup_state creates at most one snapshot per calendar day: a call made when
\* today's snapshot exists returns an empty list and changes no snapshot; a call made
\* when none exists returns the one path it created, which holds the tasks,
\* categories and activity now on disk; no two snapshots are of the same day.
C7_OneBackupPerDay ==
    [][ret'.op = "backup_state" =>
         LET n == BackupName(today)
         IN  /\ IF n \in DOMAIN backups
                THEN /\ ret'.created = <<>>
                     /\ backups' = backups
                ELSE /\ ret'.created = <<n>>
                     /\ DOMAIN backups' = DOMAIN backups \cup {n}
                     /\ \A m \in DOMAIN backups : backups'[m] = backups[m]
                     /\ SnapshotHolds(backups'[n],
                           [tasks |-> IF tasksFile.kind \in {"missing", "garbage"}
                                      THEN EmptyList ELSE tasksFile,
                            categories |-> IF catsFile.kind \in {"missing", "garbage"}
                                           THEN EmptyList ELSE catsFile,
                            activity |-> _read_activity_log(logFile)])
             /\ \A a, b \in DOMAIN backups' : NameDay(a) = NameDay(b) => a = b
             /\ LiveFiles' = LiveFiles
      ]_vars

C7_Witness ==
    /\ ret.op = "backup_state"
    /\ ret.created = <<>>
    /\ BackupName(today) \in DOMAIN backups
    /\ backups[BackupName(today)].kind = "dict"
    /\ backups[BackupName(today)].val.tasks /= tasksFile
    /\ tasksFile.kind = "list"
    /\ Cardinality(DOMAIN backups) > 1

(***************************************************************************)
(* Properties of the task lifecycle                                        *)
(***************************************************************************)
\* a timestamp field that holds a value
IsSet(x) == ~Falsy(x)

\* C8: in every state reachable by the task operations, every task has
\* completed_at set exactly when its status is Done and archived_at set exactly
\* when its status is Archived.
C8_AsClaimed ==
    \A i \in 1..Len(memTasks) :
        /\ IsSet(memTasks[i].completed_at) <=> memTasks[i].status = Str_Done
        /\ IsSet(memTasks[i].archived_at) <=> memTasks[i].status = Str_Archived

\* the step is an update_task or mark_task_status call that found its task
UpdateStep ==
    /\ tret'.op \in {"update_task", "mark_task_status"}
    /\ tret'.found

\* C9: across an update_task or mark_task_status call, a task that ends Done
\* with completed_at unset before gets it set, a task that ends not Done has it
\* cleared, and a task that was Done and stays Done keeps the completed_at it
\* had; the same for Archived and archived_at.
C9_AsClaimed ==
    [][UpdateStep =>
        LET i == _find_task(memTasks, tret'.id)
            old == memTasks[i]
            new == memTasks'[i]
        IN  /\ (new.status = Str_Done /\ ~IsSet(old.completed_at)) => IsSet(new.completed_at)
            /\ new.status /= Str_Done => ~IsSet(new.completed_at)
            /\ (old.status = Str_Done /\ new.status = Str_Done)
                    => new.completed_at = old.completed_at
            /\ (new.status = Str_Archived /\ ~IsSet(old.archived_at)) => IsSet(new.archived_at)
            /\ new.status /= Str_Archived => ~IsSet(new.archived_at)
            /\ (old.status = Str_Archived /\ new.status = Str_Archived)
                    => new.archived_at = old.archived_at]_vars

\* C10: an update_overdue_tasks call that directly follows another one on the
\* same day returns an empty changed list and leaves the collection, every
\* status in it included, as the first call left it.
C10_OverdueIdempotent ==
    [][(tret.op = "update_overdue_tasks" /\ tret'.op = "update_overdue_tasks")
        => /\ tret'.changed = <<>>
           /\ Len(memTasks') = Len(memTasks)
           /\ \A i \in 1..Len(memTasks) : memTasks'[i].status = memTasks[i].status
           /\ memTasks' = memTasks]_vars

\* a second call has run after a first call that changed a task
C10_Witness ==
    /\ tret.op = "update_overdue_tasks"
    /\ tret.repeat
    /\ tret.prior /= <<>>
    /\ tret.changed = <<>>

\* the due date of a task as update_overdue_tasks reads it
DueOf(t) == parse_date_yyyy_mm_dd(t.due_date)

\* the step is an update_overdue_tasks call
OverdueCall == tret'.op = "update_overdue_tasks"

\* C11: after update_overdue_tasks, every task with a parseable due date is
\* Overdue if the date is before today and it was not Done or Archived, Pending
\* if it was Overdue and the date is today or later, and has its earlier status
\* otherwise; so no Pending or In Progress task with a past due date and no
\* Overdue task due today or later remains.
C11_OverdueRule ==
    [][OverdueCall =>
        \A i \in 1..Len(memTasks) :
            LET old == memTasks[i]
                new == memTasks'[i]
                due == DueOf(old)
            IN  due /= None =>
                  /\ IF DateLess(due, today) /\ old.status \notin {Str_Done, Str_Archived}
                     THEN new.status = Str_Overdue
                     ELSE IF old.status = Str_Overdue /\ ~DateLess(due, today)
                     THEN new.status = Str_Pending
                     ELSE new.status = old.status
                  /\ ~(new.status \in {Str_Pending, Str_InProgress} /\ DateLess(due, today))
                  /\ ~(new.status = Str_Overdue /\ ~DateLess(due, today))]_vars

\* a call has marked an In Progress or Pending task Overdue and left a Done task
\* with a past due date alone
C11_Witness ==
    /\ tret.op = "update_overdue_tasks"
    /\ tret.changed /= <<>>
    /\ \E i, j \in 1..Len(memTasks) :
          /\ memTasks[i].status = Str_Overdue
          /\ DueOf(memTasks[i]) /= None /\ DateLess(DueOf(memTasks[i]), today)
          /\ memTasks[j].status = Str_Done
          /\ DueOf(memTasks[j]) /= None /\ DateLess(DueOf(memTasks[j]), today)

\* the positions of the tasks whose status the step changed, in order
StatusChanged ==
    LET RECURSIVE From(_)
        From(i) == IF i > Len(memTasks) THEN <<>>
                   ELSE (IF memTasks'[i].status /= memTasks[i].status THEN <<i>> ELSE <<>>)
                        \o From(i + 1)
    IN  From(1)

\* C12: update_overdue_tasks returns exactly the tasks whose status it changed,
\* each once, with updated_at refreshed on each; every other task, the tasks
\* without a parseable due date and the Done and Archived ones among them, keeps
\* all its fields; no task is added or removed.
C12_OverdueFrame ==
    [][OverdueCall =>
        /\ Len(memTasks') = Len(memTasks)
        /\ tret'.changed = StatusChanged
        /\ \A i \in 1..Len(memTasks) :
              IF memTasks'[i].status /= memTasks[i].status
              THEN /\ memTasks'[i].updated_at = today
                   /\ memTasks'[i] = [memTasks[i] EXCEPT !.status = memTasks'[i].status,
                                                         !.updated_at = today]
              ELSE memTasks'[i] = memTasks[i]
        /\ \A i \in 1..Len(memTasks) :
              (DueOf(memTasks[i]) = None \/ memTasks[i].status \in {Str_Done, Str_Archived})
                  => memTasks'[i] = memTasks[i]]_vars

\* a call on a later day returned the second task only: the first one has no
\* parseable due date
C12_Witness ==
    /\ tret.op = "update_overdue_tasks"
    /\ tret.changed = <<2>>
    /\ Len(memTasks) = 2
    /\ DueOf(memTasks[1]) = None
    /\ memTasks[1].due_date /= <<>>
    /\ memTasks[2].updated_at /= memTasks[2].created_at

(***************************************************************************)
(* Properties of free text                                                 *)
(***************************************************************************)
Priorities == {Str_Low, Str_Medium, Str_High}

Statuses == {Str_Pending, Str_InProgress, Str_Done, Str_Archived, Str_Overdue}

\* the words the normalisers know, in lower case
PriorityWords == {<<"l", "o", "w">>, <<"l">>, <<"m", "e", "d", "i", "u", "m">>, <<"m", "e", "d">>, <<"m">>, <<"h", "i", "g", "h">>, <<"h">>}

StatusWords ==
    {<<"p", "e", "n", "d", "i", "n", "g">>, <<"p">>, <<"t", "o", "d", "o">>, <<"t", "o", "-", "d", "o">>,
     <<"i", "n", " ", "p", "r", "o", "g", "r", "e", "s", "s">>, <<"p", "r", "o", "g", "r", "e", "s", "s">>, <<"i", "p">>, <<"d", "o", "i", "n", "g">>,
     <<"d", "o", "n", "e">>, <<"c", "o", "m", "p", "l", "e", "t", "e", "d">>, <<"c", "o", "m", "p", "l", "e", "t", "e">>, <<"d">>,
     <<"a", "r", "c", "h", "i", "v", "e", "d">>, <<"a", "r", "c", "h", "i", "v", "e">>, <<"a">>,
     <<"o", "v", "e", "r", "d", "u", "e">>, <<"l", "a", "t", "e">>, <<"o">>}

\* C13: normalize_priority and normalize_status give one of the enumerated
\* values for every text, Medium and Pending for text they do not know; and
\* every task built through create, update, mark and overdue maintenance from
\* free text has a priority among Low, Medium, High and a status among Pending,
\* In Progress, Done, Archived, Overdue.
C13_Normalised ==
    /\ pure.fn = "normalize_priority" =>
          /\ pure.out \in Priorities
          /\ Lower(Strip(pure.arg)) \notin PriorityWords => pure.out = Str_Medium
    /\ pure.fn = "normalize_status" =>
          /\ pure.out \in Statuses
          /\ Lower(Strip(pure.arg)) \notin StatusWords => pure.out = Str_Pending
    /\ \A i \in 1..Len(memTasks) :
          /\ memTasks[i].priority \in Priorities
          /\ memTasks[i].status \in Statuses

\* unknown status text went through the normaliser, next to a collection whose
\* tasks were built from padded, upper-case and unknown text
C13_Witness ==
    /\ pure.fn = "normalize_status"
    /\ pure.arg = <<"d", "o", "n">>
    /\ pure.out = Str_Pending
    /\ Len(memTasks) = 2
    /\ memTasks[1].priority = Str_High /\ memTasks[1].status = Str_Done
    /\ memTasks[2].priority = Str_Medium /\ memTasks[2].status = Str_Pending

\* C14: in every state reachable by create_task and update_task calls with any
\* due_date text, every task's due_date is empty or a date that
\* parse_date_yyyy_mm_dd accepts.
C14_AsClaimed ==
    \A i \in 1..Len(memTasks) :
        \/ memTasks[i].due_date = <<>>
        \/ DueOf(memTasks[i]) /= None

(***************************************************************************)
(* Properties of tags, identifiers and absent tasks                        *)
(***************************************************************************)
\* a tag list without an empty entry and without two entries equal ignoring case
TagsClean(tags) ==
    /\ \A j \in 1..Len(tags) : tags[j] /= <<>>
    /\ \A j, k \in 1..Len(tags) : j /= k => Lower(tags[j]) /= Lower(tags[k])

\* C15: in every state reachable by create_task with any tags, set_task_tags
\* and bulk_reassign_tag, every task's tag list has no empty entry and no two
\* entries that are equal ignoring case.
C15_AsClaimed == \A i \in 1..Len(memTasks) : TagsClean(memTasks[i].tags)

\* the ids of a collection, in order
IdsOf(coll) == [i \in 1..Len(coll) |-> coll[i].id]

\* C16: task ids are unique in every reachable collection: create_task gives
\* the new task an id no task of the collection has and appends it, delete_task
\* removes one id, and no other operation changes an id.
C16_UniqueIds ==
    [][/\ \A i, j \in 1..Len(memTasks') : i /= j => memTasks'[i].id /= memTasks'[j].id
       /\ tret'.op = "create_task" =>
             /\ \A i \in 1..Len(memTasks) : memTasks[i].id /= tret'.id
             /\ IdsOf(memTasks') = Append(IdsOf(memTasks), tret'.id)
       /\ tret'.op = "delete_task" => IdsOf(memTasks') = IdsOf(delete_task(memTasks, tret'.id))
       /\ tret'.op \notin {"create_task", "delete_task"} => IdsOf(memTasks') = IdsOf(memTasks)
      ]_vars

\* a second task was created while the id of the first was taken
C16_Witness ==
    /\ tret.op = "create_task"
    /\ Len(memTasks) = 2
    /\ memTasks[2].id = tret.id
    /\ memTasks[1].id /= memTasks[2].id
    /\ memTasks[1].subtasks /= <<>>

\* the operations that look a task up by its id
ById == {"update_task", "mark_task_status", "add_subtask", "set_task_tags", "delete_task"}

\* C17: update_task, mark_task_status, add_subtask, set_task_tags and
\* delete_task called with an id that no task has report that nothing was found
\* and leave the collection, every field of every task included, as it was.
C17_NotFound ==
    [][(tret'.op \in ById /\ \A i \in 1..Len(memTasks) : memTasks[i].id /= tret'.id)
        => /\ ~tret'.found
           /\ memTasks' = memTasks]_vars

\* set_task_tags with an unknown id has returned on a later day, the collection
\* holding one task with tags and a subtask
C17_Witness ==
    /\ tret.op = "set_task_tags"
    /\ ~tret.found
    /\ tret.arg /= <<>>
    /\ Len(memTasks) = 1
    /\ memTasks[1].id /= tret.id
    /\ memTasks[1].tags /= <<>>
    /\ memTasks[1].tags /= tret.arg
    /\ memTasks[1].subtasks /= <<>>
    /\ memTasks[1].updated_at /= today

\* the fields update_task derives
Derived == {"updated_at", "completed_at", "archived_at"}

\* C18: update_task on a task it finds changes, of that task's fields, only the
\* updatable fields named in the updates, updated_at (set to the current time)
\* and the derived completed_at and archived_at; id, created_at, tags, subtasks
\* and the updatable fields not named keep their values, also when the updates
\* name a key that is not updatable; no other task changes.
C18_UpdateFrame ==
    [][(tret'.op = "update_task" /\ tret'.found) =>
        LET i == _find_task(memTasks, tret'.id)
            old == memTasks[i]
            new == memTasks'[i]
            named == DOMAIN tret'.arg \cap Updatable
        IN  /\ Len(memTasks') = Len(memTasks)
            /\ \A j \in 1..Len(memTasks) : j /= i => memTasks'[j] = memTasks[j]
            /\ DOMAIN new = DOMAIN old
            /\ \A k \in DOMAIN old \ (named \cup Derived) : new[k] = old[k]
            /\ new.updated_at = today
            /\ "due_date" \in named => new.due_date = Strip(tret'.arg.due_date)
            /\ "status" \in named => new.status = normalize_status(tret'.arg.status)
            /\ "description" \in named => new.description = Strip(tret'.arg.description)
      ]_vars

\* on a later day an update naming id, created_at, tags and an unknown key next to
\* description has returned, the collection holding another task as well
C18_Witness ==
    /\ tret.op = "update_task"
    /\ tret.found
    /\ "id" \in DOMAIN tret.arg
    /\ Len(memTasks) = 2
    /\ LET t == memTasks[_find_task(memTasks, tret.id)]
       IN  /\ t.id /= tret.arg.id
           /\ t.tags /= tret.arg.tags
           /\ t.created_at /= t.updated_at
           /\ t.updated_at = today

\* the positions of a tag list that survive cleaning: the trimmed entry is not
\* empty and no earlier entry is equal to it ignoring case
Kept(tags) ==
    {j \in 1..Len(tags) :
        /\ Strip(tags[j]) /= <<>>
        /\ \A k \in 1..(j - 1) : Lower(Strip(tags[k])) /= Lower(Strip(tags[j]))}

\* r holds exactly the trimmed entries at the kept positions, in their order
IsCleaned(r, tags) ==
    /\ Len(r) = Cardinality(Kept(tags))
    /\ \A j \in Kept(tags) : r[Cardinality({k \in Kept(tags) : k <= j})] = Strip(tags[j])

\* C19: set_task_tags replaces the task's tags with the input trimmed, without
\* empty entries and without case-insensitive duplicates, first spelling and
\* first-seen order kept (["a","A"," b ","",""] gives ["a","b"]); applied again
\* to its own result it changes nothing.
C19_SetTags ==
    [][(tret'.op = "set_task_tags" /\ tret'.found) =>
        LET i == _find_task(memTasks, tret'.id)
            new == memTasks'[i]
        IN  /\ IsCleaned(new.tags, tret'.arg)
            /\ TagsClean(new.tags)
            /\ tret'.arg = <<<<"a">>, <<"A">>, <<" ", "b", " ">>, <<>>, <<>>>>
                  => new.tags = <<<<"a">>, <<"b">>>>
            /\ set_task_tags(memTasks', tret'.id, new.tags) = memTasks'
            /\ \A k \in DOMAIN new \ {"tags", "updated_at"} : new[k] = memTasks[i][k]
            /\ \A j \in 1..Len(memTasks) : j /= i => memTasks'[j] = memTasks[j]
      ]_vars

\* the documented example has run on a task that held other tags
C19_Witness ==
    /\ tret.op = "set_task_tags"
    /\ tret.found
    /\ tret.arg = <<<<"a">>, <<"A">>, <<" ", "b", " ">>, <<>>, <<>>>>
    /\ memTasks[_find_task(memTasks, tret.id)].tags = <<<<"a">>, <<"b">>>>
    /\ Len(memTasks) = 2

\* the task holds a tag equal to old ignoring case and padding
HasTag(t, old) == \E j \in 1..Len(t.tags) : Lower(Strip(t.tags[j])) = old

\* C20: bulk_reassign_tag(old, new) replaces, in every task holding a tag equal
\* to old ignoring case, each such tag by new and removes case-insensitive
\* duplicates and empty entries from that task's tags; it returns the number of
\* tasks that held old and leaves every other task as it was; with old or new
\* empty after trimming it changes nothing and returns 0.  On tags [Work, x] and
\* [play], reassigning work to job gives [job, x] and [play] and returns 1.
C20_BulkReassign ==
    [][tret'.op = "bulk_reassign_tag" =>
        LET old == Lower(Strip(tret'.arg[1]))
            new == Strip(tret'.arg[2])
        IN  IF old = <<>> \/ new = <<>>
            THEN memTasks' = memTasks /\ tret'.out = 0
            ELSE /\ Len(memTasks') = Len(memTasks)
                 /\ tret'.out = Cardinality({i \in 1..Len(memTasks) : HasTag(memTasks[i], old)})
                 /\ \A i \in 1..Len(memTasks) :
                       LET t == memTasks[i]
                           u == memTasks'[i]
                       IN  IF HasTag(t, old)
                           THEN /\ IsCleaned(u.tags, [j \in 1..Len(t.tags) |->
                                       IF Lower(Strip(t.tags[j])) = old THEN new
                                       ELSE t.tags[j]])
                                /\ TagsClean(u.tags)
                                /\ \E j \in 1..Len(u.tags) : Lower(u.tags[j]) = Lower(new)
                                /\ Lower(new) /= old => ~HasTag(u, old)
                                /\ u.updated_at = today
                                /\ \A k \in DOMAIN t \ {"tags", "updated_at"} : u[k] = t[k]
                           ELSE u = t
                 /\ (/\ tret'.arg = <<<<"w", "o", "r", "k">>, <<"j", "o", "b">>>>
                     /\ Len(memTasks) = 2
                     /\ memTasks[1].tags = <<<<"W", "o", "r", "k">>, <<"x">>>>
                     /\ memTasks[2].tags = <<<<"p", "l", "a", "y">>>>)
                    => /\ memTasks'[1].tags = <<<<"j", "o", "b">>, <<"x">>>>
                       /\ memTasks'[2].tags = <<<<"p", "l", "a", "y">>>>
                       /\ tret'.out = 1
      ]_vars

\* the documented example has run, a day after the tasks were created
C20_Witness ==
    /\ tret.op = "bulk_reassign_tag"
    /\ tret.arg = <<<<"w", "o", "r", "k">>, <<"j", "o", "b">>>>
    /\ tret.out = 1
    /\ Len(memTasks) = 2
    /\ memTasks[1].tags = <<<<"j", "o", "b">>, <<"x">>>>
    /\ memTasks[2].tags = <<<<"p", "l", "a", "y">>>>
    /\ memTasks[1].updated_at = today
    /\ memTasks[2].updated_at /= today

(***************************************************************************)
(* Properties of the urgency ranking                                       *)
(***************************************************************************)
\* the number of days from today to day d, counted day by day; -1 for a past day
DaysAhead(d) ==
    IF DateLess(d, today) THEN -1
    ELSE CHOOSE n \in 0..400 : AddDays(today, n) = d

\* the roles of the ordering claim
IsOverdueHigh(t) ==
    /\ t.status = Str_Overdue /\ t.priority = Str_High
    /\ DueOf(t) /= None /\ DateLess(DueOf(t), today)

IsPendingHigh30(t) ==
    /\ t.status = Str_Pending /\ t.priority = Str_High
    /\ DueOf(t) /= None /\ DueOf(t) = AddDays(today, 30)

IsDoneHigh(t) == t.status = Str_Done /\ t.priority = Str_High

\* the position of task x in the sorted list
PosIn(sorted, x) == CHOOSE p \in 1..Len(sorted) : \A k \in DOMAIN x : sorted[p][k] = x[k]

\* C21 as claimed: of three High tasks, a Overdue and past due, b Pending and due
\* in 30 days, c Done with any due date or none, a scores more than b and b more
\* than c, and sort_by_urgency places a before b before c.
C21_AsClaimed ==
    pure.fn = "sort_by_urgency" =>
        \A i, j, k \in 1..Len(pure.arg) :
            (IsOverdueHigh(pure.arg[i]) /\ IsPendingHigh30(pure.arg[j]) /\ IsDoneHigh(pure.arg[k]))
            => /\ urgency_score(pure.arg[i]) > urgency_score(pure.arg[j])
               /\ urgency_score(pure.arg[j]) > urgency_score(pure.arg[k])
               /\ PosIn(pure.out, pure.arg[i]) < PosIn(pure.out, pure.arg[j])
               /\ PosIn(pure.out, pure.arg[j]) < PosIn(pure.out, pure.arg[k])

\* the Done task has no due date the parser accepts, or is due 6 days ahead or later
DueFarOrNone(t) == DueOf(t) = None \/ DaysAhead(DueOf(t)) >= 6

\* C21, amended: a scores more than b and than c and is placed before both; b
\* scores more than c, and is placed before it, exactly when c has no parseable
\* due date or is due at least 6 days after today; a Done task due 5 days ahead
\* ties with b and keeps its place relative to b, one due earlier scores more
\* than b and is placed before it.
C21_UrgencyOrder ==
    pure.fn = "sort_by_urgency" =>
        \A i, j, k \in 1..Len(pure.arg) :
            (IsOverdueHigh(pure.arg[i]) /\ IsPendingHigh30(pure.arg[j]) /\ IsDoneHigh(pure.arg[k]))
            => LET a == pure.arg[i]
                   b == pure.arg[j]
                   c == pure.arg[k]
                   pa == PosIn(pure.out, a)
                   pb == PosIn(pure.out, b)
                   pc3 == PosIn(pure.out, c)
               IN  /\ Len(pure.out) = Len(pure.arg)
                   /\ urgency_score(a) > urgency_score(b)
                   /\ urgency_score(a) > urgency_score(c)
                   /\ pa < pb /\ pa < pc3
                   /\ urgency_score(b) > urgency_score(c) <=> DueFarOrNone(c)
                   /\ DueFarOrNone(c) => pb < pc3
                   /\ (~DueFarOrNone(c) /\ DaysAhead(DueOf(c)) /= 5) => pc3 < pb
                   /\ (~DueFarOrNone(c) /\ DaysAhead(DueOf(c)) = 5) => (pb < pc3 <=> j < k)

\* the three tasks were sorted from the order c, b, a on the second day, c being
\* due 6 days ahead
C21_Witness ==
    /\ pure.fn = "sort_by_urgency"
    /\ today /= StartDate
    /\ Len(pure.arg) = 3
    /\ IsDoneHigh(pure.arg[1]) /\ IsPendingHigh30(pure.arg[2]) /\ IsOverdueHigh(pure.arg[3])
    /\ DueOf(pure.arg[1]) /= None /\ DaysAhead(DueOf(pure.arg[1])) = 6
    /\ pure.out[1].status = Str_Overdue
    /\ pure.out[2].status = Str_Pending
    /\ pure.out[3].status = Str_Done

StatusWeight ==
    [st \in Statuses |->
        CASE st = Str_Overdue -> 1000
          [] st = Str_InProgress -> 80
          [] st = Str_Pending -> 50
          [] st = Str_Done -> 0 - 100
          [] st = Str_Archived -> 0 - 200]

PriorityWeight ==
    [pr \in Priorities |->
        CASE pr = Str_High -> 100
          [] pr = Str_Medium -> 50
          [] pr = Str_Low -> 10]

\* the due-date term for the due-date text of a task
DueTerm(text) ==
    LET d == parse_date_yyyy_mm_dd(text)
    IN  IF d = None THEN 0
        ELSE IF DaysAhead(d) < 0 THEN 500
        ELSE IF DaysAhead(d) >= 20 THEN 0
        ELSE 200 - 10 * DaysAhead(d)

\* C22: urgency_score is the sum of the status weight (Overdue 1000, In Progress
\* 80, Pending 50, Done -100, Archived -200), the priority weight (High 100,
\* Medium 50, Low 10) and the due-date term: 500 for a due date before today,
\* 200 - 10 * days for one today or later, which is 200 for today and 0 from 20
\* days out, and 0 without a parseable due date.
C22_ScoreTerms ==
    pure.fn = "urgency_score" =>
        /\ pure.out = StatusWeight[normalize_status(pure.arg.status)]
                      + PriorityWeight[pure.arg.priority]
                      + DueTerm(pure.arg.due_date)
        /\ pure.arg.due_date = IsoFormat(today) => DueTerm(pure.arg.due_date) = 200
        /\ pure.arg.due_date = IsoFormat(AddDays(today, 20)) => DueTerm(pure.arg.due_date) = 0

\* on the second day a Low task In Progress due 19 days ahead was scored: 80 + 10 + 10
C22_Witness ==
    /\ pure.fn = "urgency_score"
    /\ today /= StartDate
    /\ pure.arg.status = Str_InProgress
    /\ pure.arg.priority = Str_Low
    /\ pure.arg.due_date = IsoFormat(AddDays(today, 19))
    /\ pure.out = 100

(***************************************************************************)
(* Properties of filtering                                                 *)
(***************************************************************************)
\* the keyword argument was supplied
Given(x) == x /= None

\* the predicates on status, category, priority and tag that were supplied
MatchesFields(t, f) ==
    /\ Given(f.status) => Lower(t.status) = Lower(Strip(f.status))
    /\ Given(f.category) => Lower(t.category) = Lower(Strip(f.category))
    /\ Given(f.priority) => t.priority = normalize_priority(f.priority)
    /\ Given(f.tag) => \E j \in 1..Len(t.tags) : Lower(t.tags[j]) = Lower(Strip(f.tag))

\* the task's due date lies between the bounds that are dates, both included
InWindow(t, f) ==
    LET d == DueOf(t)
        da == parse_date_yyyy_mm_dd(f.due_after)
        db == parse_date_yyyy_mm_dd(f.due_before)
    IN  /\ d /= None
        /\ da /= None => ~DateLess(d, da)
        /\ db /= None => ~DateLess(db, d)

\* r holds exactly the tasks of coll at the positions keep, with their defaults,
\* in their order
IsSelection(r, coll, keep) ==
    /\ Len(r) = Cardinality(keep)
    /\ \A j \in keep :
          r[Cardinality({k \in keep : k <= j})] = _ensure_task_defaults(coll[j])

\* C23 as claimed: filter_tasks_advanced returns, in their order, exactly the
\* tasks that satisfy every supplied predicate; whenever due_after or due_before
\* is supplied, a task whose due date is empty or unparseable is excluded, and
\* both bounds are inclusive.
C23_AsClaimed ==
    pure.fn = "filter_tasks_advanced" =>
        LET coll == pure.arg.tasks
            f == pure.arg.f
            keep == {i \in 1..Len(coll) :
                        /\ MatchesFields(_ensure_task_defaults(coll[i]), f)
                        /\ (Given(f.due_after) \/ Given(f.due_before))
                              => InWindow(_ensure_task_defaults(coll[i]), f)}
        IN  IsSelection(pure.out, coll, keep)

\* C23, amended: the window applies whenever due_after or due_before is a date
\* the parser accepts; a bound that is supplied but is no date is ignored, and
\* when no bound is a date no task is excluded for its due date.
C23_Filter ==
    pure.fn = "filter_tasks_advanced" =>
        LET coll == pure.arg.tasks
            f == pure.arg.f
            dated == \/ parse_date_yyyy_mm_dd(f.due_after) /= None
                     \/ parse_date_yyyy_mm_dd(f.due_before) /= None
            keep == {i \in 1..Len(coll) :
                        /\ MatchesFields(_ensure_task_defaults(coll[i]), f)
                        /\ dated => InWindow(_ensure_task_defaults(coll[i]), f)}
        IN  /\ IsSelection(pure.out, coll, keep)
            /\ dated => \A p \in 1..Len(pure.out) : DueOf(pure.out[p]) /= None

\* a window alone was applied to the five tasks: the two tasks due on its first
\* and on its last day are returned, the three others are not
C23_Witness ==
    /\ pure.fn = "filter_tasks_advanced"
    /\ pure.arg.tasks = FilterTasks5
    /\ pure.arg.f = [status |-> None, category |-> None, priority |-> None, tag |-> None,
                     due_after |-> IsoFormat(WindowFrom), due_before |-> IsoFormat(WindowTo)]
    /\ Len(pure.out) = 2
    /\ pure.out[1].id = <<"a", "1">>
    /\ pure.out[2].id = <<"b", "2">>

(***************************************************************************)
(* Properties of the schema check                                          *)
(***************************************************************************)
\* C29: validate_task_schema is true exactly for a sequence whose every element
\* is a record holding all nine required fields: true for every collection of
\* such records, the empty one included, whatever the values of the fields;
\* false once any required field is removed from any record; false for an input
\* that is no sequence.
C29_Schema ==
    pure.fn = "validate_task_schema" =>
        /\ pure.out <=>
              /\ pure.arg.kind = "list"
              /\ \A i \in 1..Len(pure.arg.val) :
                    /\ pure.arg.val[i].kind = "dict"
                    /\ {"id", "title", "description", "category", "priority", "status",
                        "due_date", "created_at", "updated_at"} \subseteq DOMAIN pure.arg.val[i].val
        /\ pure.arg \in ValidDocs => pure.out
        /\ pure.arg \in DocsFieldRemoved => ~pure.out
        /\ pure.arg \in DocsNoSequence => ~pure.out

\* the check has refused two records of which the second lacks updated_at
C29_Witness ==
    /\ pure.fn = "validate_task_schema"
    /\ pure.arg = JList(<<TaskOdd, Without(TaskX, "updated_at")>>)
    /\ ~pure.out

(***************************************************************************)
(* Properties of the categories                                            *)
(***************************************************************************)
\* a sequence without its k-th element
DropAt(seq, k) == SubSeq(seq, 1, k - 1) \o SubSeq(seq, k + 1, Len(seq))

\* C24: delete_category with the id of an existing category removes that
\* category, sets category to Uncategorized on every task whose category equals
\* the deleted category's name, leaves all other tasks and categories as they
\* were and returns true; with an unknown id it returns false and changes
\* neither collection.
C24_DeleteCategory ==
    pure.fn = "delete_category" =>
        LET a == pure.arg
            r == pure.out
        IN  IF \E k \in 1..Len(a.categories) : a.categories[k].id = a.id
            THEN /\ r.ok
                 /\ \E k \in 1..Len(a.categories) :
                       /\ a.categories[k].id = a.id
                       /\ r.categories = DropAt(a.categories, k)
                       /\ Len(r.tasks) = Len(a.tasks)
                       /\ \A i \in 1..Len(a.tasks) :
                             r.tasks[i] = IF a.tasks[i].category = a.categories[k].name
                                          THEN [a.tasks[i] EXCEPT !.category = Str_Uncategorized]
                                          ELSE a.tasks[i]
            ELSE /\ ~r.ok
                 /\ r.categories = a.categories
                 /\ r.tasks = a.tasks

\* a category was deleted while another stayed, one task went to Uncategorized
\* and another kept its category
C24_Witness ==
    /\ pure.fn = "delete_category"
    /\ pure.out.ok
    /\ Len(pure.out.categories) = 1
    /\ Len(pure.arg.tasks) = 2
    /\ \E i, j \in 1..2 :
          /\ pure.arg.tasks[i].category = Str_School
          /\ pure.out.tasks[i].category = Str_Uncategorized
          /\ pure.out.tasks[j].category = Str_Work

(***************************************************************************)
(* Properties of the activity log                                          *)
(***************************************************************************)
\* the events of the lines of a log that are JSON, in file order
WellFormed(file) ==
    IF file.kind = "missing" THEN <<>>
    ELSE LET kept == SelectSeq(file.val, LAMBDA l : l.kind = "json")
         IN  [n \in 1..Len(kept) |-> kept[n].val.val]

\* C28: reading the activity log with load_activity, inside load_state and
\* inside backup_state never stops at a malformed line: the result is the
\* well-formed lines in file order, every malformed or blank line dropped on its
\* own, and a missing log gives the empty list.
C28_LogRead ==
    pure.fn \in {"load_activity", "load_state", "backup_state"} =>
        pure.out = WellFormed(pure.arg)

\* a log with an event after a malformed line and another after a blank line was
\* read by load_activity
C28_Witness ==
    /\ pure.fn = "load_activity"
    /\ pure.arg.kind = "lines"
    /\ Len(pure.arg.val) = 3
    /\ pure.arg.val[1] \in {LineBad, LineBlank}
    /\ pure.arg.val[2].kind = "json"
    /\ pure.arg.val[3].kind = "json"
    /\ Len(pure.out) = 2

\* the log holds one line per event of the list, in the order of the list
Mirrors(file, activity) ==
    /\ file.kind = "lines"
    /\ Len(file.val) = Len(activity)
    /\ \A i \in 1..Len(activity) : file.val[i] = LineJson(JDict(activity[i]))

\* a step of main() that ended in save_state
SavedStep == sess'.saved /\ (sess.at = "off" \/ memActivity' /= memActivity)

\* C25: after every save_state of the main flow, where the event was appended
\* to the in-memory list and to the log by log_activity first, the log on disk
\* holds the events of the in-memory list in the same order, each once.
C25_LogMirrorsMemory == [][SavedStep => Mirrors(logFile', memActivity')]_vars

\* a second task was added and saved: two events in memory, two lines on disk
C25_Witness ==
    /\ sess.op = "create_task"
    /\ sess.saved
    /\ Len(memActivity) = 2
    /\ memActivity[1].action = "create_task"
    /\ logFile.kind = "lines"
    /\ Len(logFile.val) = 2

(***************************************************************************)
(* Properties of a session                                                 *)
(***************************************************************************)
\* the three live files hold what is in memory
Flushed(files, T, C, A) ==
    /\ files.tasks.kind = "list"
    /\ FromDoc(files.tasks) = T
    /\ files.tasks = JList([i \in 1..Len(T) |-> JDict(T[i])])
    /\ files.cats = JList([i \in 1..Len(C) |-> JDict(C[i])])
    /\ Mirrors(files.log, A)

\* a branch of the menu changed one of the in-memory collections
MenuChanged ==
    /\ sess.at = "menu"
    /\ sess'.at = "menu"
    /\ <<memTasks, memCats, memActivity>>' /= <<memTasks, memCats, memActivity>>

\* the start-up marked a task overdue: memory differs from what was loaded
StartupChanged ==
    /\ sess.at = "off"
    /\ sess'.at = "menu"
    /\ memTasks' /= FromDoc(_safe_read_json(tasksFile, JList(<<>>)))

\* C26: every mutating operation of the main flow (the start-up that marked a
\* task overdue, create, update, mark status, add subtask, delete, archive,
\* category add, update and delete, tag edit, bulk reassign) ends with the three
\* files equal to the in-memory tasks, categories and activity.
C26_FlushAfterMutation ==
    [][(MenuChanged \/ StartupChanged) =>
          Flushed([tasks |-> tasksFile', cats |-> catsFile', log |-> logFile'],
                  memTasks', memCats', memActivity')]_vars

\* a session started the day after a task was due: the task is Overdue in
\* memory and in tasks.json, the event is the last of the list and of the log
C26_Witness ==
    /\ sess.op = "start"
    /\ sess.saved
    /\ Len(memTasks) = 1
    /\ memTasks[1].status = Str_Overdue
    /\ tasksFile.kind = "list"
    /\ tasksFile.val[1].val.status = Str_Overdue
    /\ Len(memActivity) = 2
    /\ memActivity[2].action = "auto_overdue"
    /\ logFile.val[2] = LineJson(JDict(memActivity[2]))

\* C30: every task create_task produced, also after update_task,
\* mark_task_status, add_subtask, a tag operation or update_overdue_tasks, has
\* all required fields; the collection passes validate_task_schema, and
\* save_state followed by load_state returns the same tasks without recovery
\* from a snapshot.
C30_RequiredFields ==
    sess.at = "menu" =>
        /\ \A i \in 1..Len(memTasks) : Required \subseteq DOMAIN memTasks[i]
        /\ validate_task_schema(ToDoc(memTasks))
        /\ LET saved == save_state(LiveFiles, memTasks, memCats, memActivity)
               loaded == load_state(saved, backups)
           IN  /\ loaded.path = "normal"
               /\ loaded.got.tasks.kind = "list"
               /\ FromDoc(loaded.got.tasks) = memTasks

\* a task created in the session was given new tags and saved
C30_Witness ==
    /\ sess.op = "set_tags"
    /\ sess.saved
    /\ Len(memTasks) = 1
    /\ memTasks[1].tags = <<<<"a">>, <<"b">>>>
    /\ memTasks[1].updated_at /= <<>>

\* the first sequence is the beginning of the second
IsPrefix(s, t) == Len(s) <= Len(t) /\ SubSeq(t, 1, Len(s)) = s

\* C27: activity events are append-only and immutable once written: whatever
\* runs (log_activity, save_state, load_state with its recovery from a
\* snapshot, backup_state, one session after another), every event in the log
\* on disk stays there with the same content and in the same order, the log
\* growing at its end only.
C27_AppendOnly == [][IsPrefix(WellFormed(logFile), WellFormed(logFile'))]_vars

C32_UnreadableIsEmpty ==
    [][(/\ pc = "idle"
        /\ tasksFile.kind \in {"missing", "garbage"}
        /\ (ret'.op = "load_state" \/ pc' \in {"restore_cats", "restore_log"}))
       => /\ ret'.op = "load_state"
          /\ ret'.path = "normal"
          /\ ret'.tasks = EmptyList
          /\ pc' = "idle"
          /\ <<tasksFile, catsFile, logFile>>' = <<tasksFile, catsFile, logFile>>
          /\ backups' = backups]_vars

\* load_state returned from a tasks.json that does not parse while a valid
\* snapshot with tasks was there
C32_Witness ==
    /\ ret.op = "load_state"
    /\ ret.read.tasks = FileGarbage
    /\ ret.path = "normal"
    /\ ret.tasks = EmptyList
    /\ \E n \in ValidNames : backups[n].val.tasks /= EmptyList

(***************************************************************************)
(* Properties of identifier generation                                     *)
(***************************************************************************)
\* C33: identifier generation in create_task terminates: whenever an id of the
\* id space is unused, the loop that re-rolls a colliding id ends, with an id
\* that is not in the collection, whatever the size of the collection (the
\* generator producing every id sooner or later).
C33_IdLoopEnds ==
    (pure.fn = "while" /\ IdSpace \ ExistingIds(memTasks) /= {})
        ~> (/\ pure.fn = "ensure_unique_id"
            /\ pure.out \notin ExistingIds(memTasks))

\* the loop returned an unused id after the first candidate had collided with
\* the id of the task in the collection
C33_Witness ==
    /\ pure.fn = "ensure_unique_id"
    /\ pure.arg.collided
    /\ Len(memTasks) = 1
    /\ pure.arg.existing = {memTasks[1].id}
    /\ pure.out /= memTasks[1].id

(***************************************************************************)
(* Properties of what load_state hands to its caller                       *)
(***************************************************************************)
\* C34: load_state never returns a task collection that fails the schema check:
\* on the normal path, with tasks.json missing or unparsable, after a recovery
\* from a snapshot and with no valid snapshot, whatever tasks.json and the
\* snapshot directory hold, the tasks returned are a sequence of records that
\* each have every required field.
C34_LoadedTasksPassSchema ==
    pure.fn = "load_state_from" =>
        LET tasks == pure.out.got.tasks
        IN  /\ tasks.kind = "list"
            /\ \A i \in 1..Len(tasks.val) :
                  /\ tasks.val[i].kind = "dict"
                  /\ Required \subseteq DOMAIN tasks.val[i].val

\* tasks.json held a record lacking a field, the newest snapshot too, and the
\* older snapshot's one well-formed task was returned
C34_Witness ==
    /\ pure.fn = "load_state_from"
    /\ pure.arg.tasks = JList(<<TaskX, TaskNoUpdated>>)
    /\ DOMAIN pure.arg.dir = {BackupName(StartDate), BackupName(LastDay)}
    /\ pure.arg.dir[BackupName(LastDay)].kind = "dict"
    /\ Get(pure.arg.dir[BackupName(LastDay)].val, "tasks", JNone)
          = JList(<<TaskX, TaskNoUpdated>>)
    /\ pure.out.path = "restored"
    /\ pure.out.got.tasks = JList(<<TaskX>>)

====
